---- MODULE Spec2Model ----
(***************************************************************************)
(* Hook execution engine of the CLI (HookExecutor) and its non-interactive *)
(* caller executeToolCall, as a state machine.                             *)
(*                                                                         *)
(* JavaScript values are encoded type-uniformly:                           *)
(*   - a string is a sequence of tokens, Str(<<...>>); `undefined` is the  *)
(*     value with defined = FALSE; Truthy is JavaScript truthiness;        *)
(*   - an optional object (a result's decision) is a sequence of length    *)
(*     0 (undefined) or 1;                                                 *)
(*   - an exit code is the token "0", "2", "1", "-2" or "null".            *)
(* Time is not measured: an armed timer may fire at any moment.            *)
(***************************************************************************)
EXTENDS Integers, Naturals, Sequences, FiniteSets, TLC

VARIABLES
    hookSettings,   \* HookExecutor.hookSettings (immutable after construction)
    request,        \* what the host was asked to do
    pc,             \* position of the host code
    call,           \* the current executeHooks invocation
    child,          \* per matched hook: the state of its executeHook closure
    settled,        \* indices of the hook promises, in the order they settled
    trace,          \* host-level events in program order
    sbIn,           \* argument of a direct HookExecutor.shouldBlock call
    sbOut,          \* its return value
    mp,             \* a direct HookExecutor.matchesPattern call
    idle,           \* the useIdleStopHook instance of the interactive UI
    gen,            \* one call of a content generator (provider translator)
    tr,             \* a translator object and the last request made of it
    ni              \* one run of runNonInteractive

vars == <<hookSettings, request, pc, call, child, settled, trace, sbIn, sbOut,
          mp, idle, gen, tr, ni>>

----------------------------------------------------------------------------
(* Bounds *)

\* Largest number of hooks attached to one matcher.
MaxHooks == 2

\* Longest result list handed to shouldBlock directly.
MaxResults == 2

\* Number of responses (changes from Responding to Idle) the UI goes through.
MaxResponses == 2

\* Number of events a provider sends in one stream before it ends.
MaxEvents == 3

\* conversation turns in one request
MaxTurns == 2

\* requests made of one translator object
MaxCalls == 2

\* turns of one non-interactive session in which the model requests tools
MaxSessionTurns == 2

\* tool calls the model requests in one turn
MaxFunctionCalls == 2

----------------------------------------------------------------------------
(* JavaScript values *)

undefined == [defined |-> FALSE, text |-> <<>>]

Str(t) == [defined |-> TRUE, text |-> t]

Truthy(v) == v.defined /\ v.text # <<>>

\* a || b
Or(a, b) == IF Truthy(a) THEN a ELSE b

Range(s) == {s[i] : i \in 1..Len(s)}

----------------------------------------------------------------------------
(* HookExecutor.matchesPattern *)

\* String.prototype.toLowerCase on the tokens used in tool names, patterns
\* and model names.
Lower(tok) ==
    CASE tok = "WRITE" -> "write"
      [] tok = "FILE"  -> "file"
      [] tok = "EDIT"  -> "edit"
      [] tok = "O3"    -> "o3"
      [] OTHER         -> tok

toLowerCase(s) == [i \in 1..Len(s) |-> Lower(s[i])]

\* p occurs in s as a contiguous run
IsInfix(p, s) ==
    \E k \in 0..Len(s) :
        /\ k + Len(p) <= Len(s)
        /\ \A j \in 1..Len(p) : s[k + j] = p[j]

\* The alternatives of a pattern: its text split at every "|".
RECURSIVE Alternatives(_)
Alternatives(p) ==
    IF \A i \in 1..Len(p) : p[i] # "|"
    THEN {p}
    ELSE LET k == CHOOSE i \in 1..Len(p) :
                    p[i] = "|" /\ \A j \in 1..(i - 1) : p[j] # "|"
         IN  {SubSeq(p, 1, k - 1)} \cup Alternatives(SubSeq(p, k + 1, Len(p)))

\* new RegExp(pattern, 'i') throws a SyntaxError on an unterminated group.
RegExpCompiles(p) == "(" \notin Range(p)

\* new RegExp(pattern, 'i').test(s): unanchored, case-insensitive search
RegExpTest(p, s) ==
    \E a \in Alternatives(p) : IsInfix(toLowerCase(a), toLowerCase(s))

\* (mutation: the expression is compiled without the 'i' flag)
matchesPattern_CaseSensitive(pattern, input) ==
    IF ~Truthy(pattern)
    THEN TRUE
    ELSE IF Truthy(input.tool_name)
         THEN IF RegExpCompiles(pattern.text)
              THEN \E a \in Alternatives(pattern.text) : IsInfix(a, input.tool_name.text)
              ELSE input.tool_name = pattern
         ELSE TRUE

\* (mutation: an input without tool name is tested against the pattern too)
matchesPattern_FilterAll(pattern, input) ==
    IF ~Truthy(pattern)
    THEN TRUE
    ELSE IF RegExpCompiles(pattern.text)
         THEN RegExpTest(pattern.text, input.tool_name.text)
         ELSE input.tool_name = pattern

matchesPattern(pattern, input) ==
    IF ~Truthy(pattern)
    THEN TRUE
    ELSE IF Truthy(input.tool_name)
         THEN IF RegExpCompiles(pattern.text)
              THEN RegExpTest(pattern.text, input.tool_name.text)
              ELSE input.tool_name = pattern
         ELSE TRUE

----------------------------------------------------------------------------
(* HookExecutor.getMatchingHooks *)

RECURSIVE Concat(_)
Concat(ss) == IF ss = <<>> THEN <<>> ELSE Head(ss) \o Concat(Tail(ss))

\* (mutation: the matcher is not consulted)
getMatchingHooks_Unfiltered(matchers, input) ==
    Concat([k \in 1..Len(matchers) |-> matchers[k].hooks])

getMatchingHooks(matchers, input) ==
    Concat([k \in 1..Len(matchers) |->
              IF matchesPattern(matchers[k].matcher, input)
              THEN matchers[k].hooks
              ELSE <<>>])

----------------------------------------------------------------------------
(* HookExecutor.executeHook: timeout, output parsing, exit-code classes *)

DEFAULT_TIMEOUT == 60000

undefinedNum == [defined |-> FALSE, num |-> 0]

Num(n) == [defined |-> TRUE, num |-> n]

TruthyNum(v) == v.defined /\ v.num # 0

\* `${timeout}` in a template string
NumText(n) ==
    CASE n = 0     -> "0"
      [] n = 5000  -> "5000"
      [] n = 30000 -> "30000"
      [] n = 60000 -> "60000"
      [] OTHER     -> "n"

\* (mutation: the timeout of the call takes precedence over the hook's own)
EffectiveTimeout_OptionsFirst(hook, options) ==
    IF TruthyNum(options.timeout) THEN options.timeout.num
    ELSE IF TruthyNum(hook.timeout) THEN hook.timeout.num
    ELSE DEFAULT_TIMEOUT

\* hook.timeout || options.timeout || this.DEFAULT_TIMEOUT
EffectiveTimeout(hook, options) ==
    IF TruthyNum(hook.timeout) THEN hook.timeout.num
    ELSE IF TruthyNum(options.timeout) THEN options.timeout.num
    ELSE DEFAULT_TIMEOUT

IsSpace(tok) == tok \in {" ", "\n"}

\* String.prototype.trim
RECURSIVE trim(_)
trim(s) ==
    IF s = <<>> THEN s
    ELSE IF IsSpace(Head(s)) THEN trim(Tail(s))
    ELSE IF IsSpace(s[Len(s)]) THEN trim(SubSeq(s, 1, Len(s) - 1))
    ELSE s

\* The JSON texts a hook may print, each one token, and what JSON.parse
\* makes of them.  kind "null" is the value null, on which a property read
\* throws a TypeError.
JsonTexts ==
    { "{\"decision\":\"approve\"}",
      "{\"decision\":\"block\",\"reason\":\"policy\"}",
      "{\"reason\":\"note\"}",
      "{\"decision\":\"\",\"reason\":\"\"}",
      "{\"ok\":true}",
      "null" }

JsonValue(tok) ==
    CASE tok = "{\"decision\":\"approve\"}" ->
            [kind |-> "object", hasDecision |-> TRUE, hasReason |-> FALSE,
             decision |-> Str(<<"approve">>), reason |-> undefined]
      [] tok = "{\"decision\":\"block\",\"reason\":\"policy\"}" ->
            [kind |-> "object", hasDecision |-> TRUE, hasReason |-> TRUE,
             decision |-> Str(<<"block">>), reason |-> Str(<<"policy">>)]
      [] tok = "{\"reason\":\"note\"}" ->
            [kind |-> "object", hasDecision |-> FALSE, hasReason |-> TRUE,
             decision |-> undefined, reason |-> Str(<<"note">>)]
      [] tok = "{\"decision\":\"\",\"reason\":\"\"}" ->
            [kind |-> "object", hasDecision |-> TRUE, hasReason |-> TRUE,
             decision |-> Str(<<>>), reason |-> Str(<<>>)]
      [] tok = "{\"ok\":true}" ->
            [kind |-> "object", hasDecision |-> FALSE, hasReason |-> FALSE,
             decision |-> undefined, reason |-> undefined]
      [] OTHER ->
            [kind |-> "null", hasDecision |-> FALSE, hasReason |-> FALSE,
             decision |-> undefined, reason |-> undefined]

\* JSON.parse succeeds on exactly one JSON text (surrounding white space was
\* trimmed by the caller); anything else is a SyntaxError.
JsonParses(s) == Len(s) = 1 /\ s[1] \in JsonTexts

\* if (parsed.decision || parsed.reason) decision = parsed   (mutation: the
\* parsed object is attached whenever stdout is JSON)
AttachParsed_Always(parsed) ==
    parsed.kind = "object"

\* if (parsed.decision || parsed.reason) decision = parsed
AttachParsed(parsed) ==
    parsed.kind = "object" /\ (Truthy(parsed.decision) \/ Truthy(parsed.reason))

\* lines 244-254: the decision parsed from stdout, <<>> when none
ParseDecision(stdout) ==
    LET t == trim(stdout.text) IN
    IF t # <<>> /\ JsonParses(t) /\ AttachParsed(JsonValue(t[1]))
    THEN <<[decision |-> JsonValue(t[1]).decision,
            reason   |-> JsonValue(t[1]).reason]>>
    ELSE <<>>

TimeoutResult(timeout) ==
    [success  |-> FALSE,
     output   |-> undefined,
     error    |-> Str(<<"Hook command timed out after ", NumText(timeout), "ms">>),
     decision |-> <<>>]

ErrorResult(message) ==
    [success |-> FALSE, output |-> undefined, error |-> message, decision |-> <<>>]

\* (mutation: every non-zero exit code is a blocking error)
ExitResult_AllBlock(code, stdout, stderr) ==
    IF code = "0"
    THEN [success  |-> TRUE,
          output   |-> stdout,
          error    |-> undefined,
          decision |-> ParseDecision(stdout)]
    ELSE [success  |-> FALSE,
          output   |-> undefined,
          error    |-> Or(stderr, Str(<<"Hook blocked execution">>)),
          decision |-> <<[decision |-> Str(<<"block">>), reason |-> stderr]>>]

\* lines 242-274: the result for a process that closed with `code`
ExitResult(code, stdout, stderr) ==
    IF code = "0"
    THEN [success  |-> TRUE,
          output   |-> stdout,
          error    |-> undefined,
          decision |-> ParseDecision(stdout)]
    ELSE IF code = "2"
    THEN [success  |-> FALSE,
          output   |-> undefined,
          error    |-> Or(stderr, Str(<<"Hook blocked execution">>)),
          decision |-> <<[decision |-> Str(<<"block">>), reason |-> stderr]>>]
    ELSE ErrorResult(Or(stderr, Str(<<"Hook failed with exit code ", code>>)))

\* (mutation: the close handler classifies the exit code even after a timeout)
CloseResult_IgnoreTimeout(c) ==
    ExitResult(c.code, c.stdout, c.stderr)

\* lines 220-275: what the 'close' handler passes to resolve
CloseResult(c) ==
    IF c.timedOut
    THEN TimeoutResult(c.timeout)
    ELSE ExitResult(c.code, c.stdout, c.stderr)

----------------------------------------------------------------------------
(* HookExecutor.shouldBlock *)

Proceed == [block |-> FALSE, reason |-> undefined]

RECURSIVE shouldBlockFrom(_, _)
shouldBlockFrom(results, i) ==
    IF i > Len(results) THEN Proceed
    ELSE LET result == results[i] IN
         IF result.decision # <<>> /\ result.decision[1].decision = Str(<<"block">>)
         THEN [block |-> TRUE, reason |-> result.decision[1].reason]
         ELSE IF ~result.success /\ Truthy(result.error)
         THEN [block |-> TRUE, reason |-> result.error]
         ELSE shouldBlockFrom(results, i + 1)

\* (mutation: only explicit block decisions are honoured)
shouldBlock_DecisionOnly(results) ==
    IF \E i \in 1..Len(results) :
          results[i].decision # <<>> /\ results[i].decision[1].decision = Str(<<"block">>)
    THEN LET k == CHOOSE i \in 1..Len(results) :
                    /\ results[i].decision # <<>>
                    /\ results[i].decision[1].decision = Str(<<"block">>)
                    /\ \A j \in 1..(i - 1) :
                          ~(results[j].decision # <<>>
                            /\ results[j].decision[1].decision = Str(<<"block">>))
         IN  [block |-> TRUE, reason |-> results[k].decision[1].reason]
    ELSE Proceed

shouldBlock(results) == shouldBlockFrom(results, 1)

----------------------------------------------------------------------------
(* Configurations and requests the model ranges over *)

EventNames == {"PreToolUse", "PostToolUse", "Notification", "Stop", "SubagentStop"}

HookList ==
    << [command |-> "check.sh",  timeout |-> Num(5000)],
       [command |-> "audit.sh",  timeout |-> undefinedNum],
       [command |-> "format.sh", timeout |-> Num(0)],
       [command |-> "notify.sh", timeout |-> Num(5000)] >>

FirstHooks(n) == SubSeq(HookList, 1, IF n < Len(HookList) THEN n ELSE Len(HookList))

WRITE_FILE == <<"write", "_", "file">>

NoHooks == [e \in EventNames |-> <<>>]

\* the configuration of docs/hooks.md: a regular-expression matcher in front
\* of the tool events, matcher-less hooks behind them
DocSettings ==
    [NoHooks EXCEPT
       !["PreToolUse"] =
           << [matcher |-> Str(<<"write", "_", "file", "|", "edit">>),
               hooks   |-> <<HookList[1]>>] >>,
       !["PostToolUse"] =
           << [matcher |-> undefined, hooks |-> <<HookList[2]>>] >>,
       !["Notification"] =
           << [matcher |-> Str(WRITE_FILE), hooks |-> FirstHooks(MaxHooks)] >>]

\* three matchers on one event: an upper-case pattern, one that is no
\* regular expression, and a substring pattern; a matcher without hooks
TwoMatcherSettings ==
    [NoHooks EXCEPT
       !["PreToolUse"] =
           << [matcher |-> Str(<<"WRITE", "_", "FILE">>), hooks |-> <<HookList[3]>>],
              [matcher |-> Str(<<"(", "edit">>),          hooks |-> <<HookList[2]>>],
              [matcher |-> Str(<<"file">>),               hooks |-> <<HookList[1]>>] >>,
       !["PostToolUse"] =
           << [matcher |-> Str(<<>>), hooks |-> <<>>] >>]

SettingsChoices == {NoHooks, DocSettings, TwoMatcherSettings}

NoOptions == [timeout |-> undefinedNum]

\* tools present in the ToolRegistry
Registry == {WRITE_FILE, <<"edit", "_", "file">>, <<"read", "_", "file">>}

ToolNames == Registry \cup {<<"grep">>}

\* executeToolCall for a tool, or a direct executeHooks call as made by the
\* notification hook and by the test-suite
Requests ==
    {[op |-> "toolCall", event |-> "PreToolUse", tool_name |-> Str(n),
      options |-> NoOptions] : n \in ToolNames}
      \cup
    { [op |-> "executeHooks", event |-> "Notification", tool_name |-> undefined,
       options |-> NoOptions],
      [op |-> "executeHooks", event |-> "Stop", tool_name |-> undefined,
       options |-> NoOptions],
      [op |-> "executeHooks", event |-> "PreToolUse", tool_name |-> Str(<<"(", "edit">>),
       options |-> [timeout |-> Num(30000)]] }

\* What a hook process does by the time it exits: its exit code ("null" when
\* a signal ended it) and everything it wrote to stdout and stderr.
ChildRuns ==
    { [code |-> "0", stdout |-> Str(<<>>), stderr |-> Str(<<>>)],
      [code |-> "0", stdout |-> Str(<<"done", "\n">>), stderr |-> Str(<<>>)],
      [code |-> "0", stdout |-> Str(<<"{\"decision\":\"approve\"}", "\n">>),
                     stderr |-> Str(<<"warn">>)],
      [code |-> "0", stdout |-> Str(<<"{\"decision\":\"block\",\"reason\":\"policy\"}">>),
                     stderr |-> Str(<<>>)],
      [code |-> "0", stdout |-> Str(<<"{\"reason\":\"note\"}">>), stderr |-> Str(<<>>)],
      [code |-> "0", stdout |-> Str(<<"{\"decision\":\"\",\"reason\":\"\"}">>),
                     stderr |-> Str(<<>>)],
      [code |-> "0", stdout |-> Str(<<"{\"ok\":true}">>), stderr |-> Str(<<>>)],
      [code |-> "0", stdout |-> Str(<<"null">>), stderr |-> Str(<<>>)],
      [code |-> "2", stdout |-> Str(<<>>), stderr |-> Str(<<"denied">>)],
      [code |-> "2", stdout |-> Str(<<"done">>), stderr |-> Str(<<>>)],
      [code |-> "1", stdout |-> Str(<<>>), stderr |-> Str(<<"boom">>)],
      [code |-> "1", stdout |-> Str(<<>>), stderr |-> Str(<<>>)],
      [code |-> "null", stdout |-> Str(<<>>), stderr |-> Str(<<>>)] }

\* The ways a process ends once its timeout has expired: ended by the signal,
\* or having caught it, or having finished just before it.
SignalledRuns ==
    { [code |-> "null", stdout |-> Str(<<>>), stderr |-> Str(<<>>)],
      [code |-> "0", stdout |-> Str(<<"{\"decision\":\"approve\"}", "\n">>),
                     stderr |-> Str(<<"warn">>)],
      [code |-> "2", stdout |-> Str(<<>>), stderr |-> Str(<<"denied">>)],
      [code |-> "1", stdout |-> Str(<<>>), stderr |-> Str(<<>>)] }

\* Node's close event after a failed spawn
FailedSpawnRun == [code |-> "-2", stdout |-> Str(<<>>), stderr |-> Str(<<>>)]

\* How spawning one hook turns out.  "ok": the process runs, and either
\* ends on its own / on SIGTERM, or ignores SIGTERM and never ends on its
\* own (stubborn).  "errorNT": spawn fails and Node emits 'error', then
\* 'close'.  "threw": executeHook throws before the process exists (spawn or
\* process.cwd() throws), so its promise is rejected with that message.
SpawnChoices ==
    { [spawn |-> "ok",      stubborn |-> FALSE, message |-> undefined],
      [spawn |-> "ok",      stubborn |-> TRUE,  message |-> undefined],
      [spawn |-> "errorNT", stubborn |-> FALSE, message |-> Str(<<"spawn bash ENOENT">>)],
      [spawn |-> "threw",   stubborn |-> FALSE, message |-> Str(<<"spawn EPERM">>)],
      [spawn |-> "threw",   stubborn |-> FALSE, message |-> Str(<<>>)] }

----------------------------------------------------------------------------
(* HookExecutor.executeHook: the closure state of one hook *)

NoResult == ErrorResult(undefined)

\* lines 157-219: the synchronous part of executeHook
Spawned(hook, options, ch) ==
    [ hook      |-> hook,
      timeout   |-> EffectiveTimeout(hook, options),
      spawn     |-> ch.spawn,
      stubborn  |-> ch.stubborn,
      message   |-> ch.message,
      proc      |-> IF ch.spawn = "ok" THEN "running" ELSE "none",
      code      |-> "null",
      stdout    |-> Str(<<>>),
      stderr    |-> Str(<<>>),
      timedOut  |-> FALSE,
      timer     |-> IF ch.spawn = "threw" THEN "none" ELSE "armed",
      killTimer |-> "none",
      killed    |-> FALSE,
      signals   |-> {},
      errorSeen |-> FALSE,
      promise   |-> IF ch.spawn = "threw" THEN "rejected" ELSE "pending",
      value     |-> IF ch.spawn = "threw" THEN ErrorResult(ch.message) ELSE NoResult ]

\* (mutation: a later resolve replaces the value of the promise)
Resolve_LastWins(c, v) == [c EXCEPT !.promise = "fulfilled", !.value = v]

\* resolve(v): only the first settlement of a promise counts
Resolve(c, v) ==
    IF c.promise = "pending"
    THEN [c EXCEPT !.promise = "fulfilled", !.value = v]
    ELSE c

\* clearTimeout(timeoutId)
ClearTimeout(c) ==
    IF c.timer = "armed" THEN [c EXCEPT !.timer = "cleared"] ELSE c

\* (mutation: the signal is sent to the process id whether or not the handle
\* still exists)
Kill_ByPid(c, sig) ==
    [c EXCEPT !.signals = @ \cup {sig}, !.killed = @ \/ c.proc = "running"]

\* child.kill(sig): the signal is delivered, and child.killed set, only
\* while the process handle exists
Kill(c, sig) ==
    IF c.proc = "running"
    THEN [c EXCEPT !.signals = @ \cup {sig}, !.killed = TRUE]
    ELSE c

----------------------------------------------------------------------------
(* HookExecutor.executeHooks *)

NoCall ==
    [event |-> "none", input |-> [tool_name |-> undefined], matching |-> <<>>,
     status |-> "none", results |-> <<>>]

\* (mutation: the hooks are awaited one after the other, so only the first
\* is started before the executor waits)
Launched_Sequential(matching) == {i \in 1..Len(matching) : i = 1}

\* lines 87-89: the hooks whose executeHook has been invoked when the
\* executor starts to wait
Launched(matching) == 1..Len(matching)

\* (mutation: Promise.all, which rejects as soon as one hook promise does)
Awaited_All(cs) ==
    IF \E i \in 1..Len(cs) : cs[i].promise = "rejected" THEN "rejected"
    ELSE IF \A i \in 1..Len(cs) : cs[i].promise = "fulfilled" THEN "returned"
    ELSE "awaiting"

\* line 91: Promise.allSettled never rejects
Awaited(cs) ==
    IF \A i \in 1..Len(cs) : cs[i].promise # "pending" THEN "returned" ELSE "awaiting"

\* lines 93-103 for one settled promise
SettledEntry(c) ==
    IF c.promise = "fulfilled"
    THEN c.value
    ELSE ErrorResult(Or(c.value.error, Str(<<"Hook execution failed">>)))

\* (mutation: results are pushed as the hooks complete)
Assemble_ByCompletion(cs, order) ==
    [k \in 1..Len(order) |-> SettledEntry(cs[order[k]])]

\* lines 93-105: results are assembled by position
Assemble(cs, order) ==
    [i \in 1..Len(cs) |-> SettledEntry(cs[i])]

\* lines 69-91: executeHooks up to its await.  `chs` says how spawning each
\* matched hook turns out.
StartCall(ev, input, options, chs) ==
    LET matchers == hookSettings[ev]
        matching == IF matchers = <<>> THEN <<>> ELSE getMatchingHooks(matchers, input)
        cs == [i \in 1..Len(matching) |->
                 IF i \in Launched(matching)
                 THEN Spawned(matching[i], options, chs[i])
                 ELSE [Spawned(matching[i], options, chs[i]) EXCEPT
                         !.spawn = "pending", !.proc = "none", !.timer = "none",
                         !.promise = "pending", !.value = NoResult]]
    IN  /\ call' = [event |-> ev, input |-> input, matching |-> matching,
                    status |-> IF matching = <<>> THEN "returned" ELSE "awaiting",
                    results |-> <<>>]
        /\ child' = cs
        /\ settled' = SelectSeq([i \in 1..Len(cs) |-> i],
                                LAMBDA i : cs[i].promise = "rejected")

\* every way spawning n hooks can turn out
SpawnOutcomes(ev, input) ==
    [1..Len(IF hookSettings[ev] = <<>> THEN <<>>
            ELSE getMatchingHooks(hookSettings[ev], input)) -> SpawnChoices]

\* the timeout callback, lines 176-184
TimerFires(i) ==
    /\ i \in 1..Len(child)
    /\ child[i].timer = "armed"
    /\ child[i].spawn = "ok"  \* a spawn failure is reported before any timer runs
    /\ child' = [child EXCEPT ![i] =
                   [Kill([@ EXCEPT !.timedOut = TRUE], "SIGTERM") EXCEPT
                      !.timer = "fired", !.killTimer = "armed"]]
    /\ UNCHANGED <<hookSettings, request, pc, call, settled, trace, sbIn, sbOut, mp, idle, gen, tr, ni>>

\* the nested callback, lines 179-183
KillTimerFires(i) ==
    /\ i \in 1..Len(child)
    /\ child[i].killTimer = "armed"
    /\ child' = [child EXCEPT ![i] =
                   [(IF ~@.killed THEN Kill(@, "SIGKILL") ELSE @) EXCEPT
                      !.killTimer = "fired"]]
    /\ UNCHANGED <<hookSettings, request, pc, call, settled, trace, sbIn, sbOut, mp, idle, gen, tr, ni>>

\* The hook process ends: on its own or by a signal it does not ignore.  A
\* stubborn process ignores SIGTERM and ends only by SIGKILL.
ProcessEnds(i) ==
    /\ i \in 1..Len(child)
    /\ child[i].proc = "running"
    /\ child[i].stubborn => "SIGKILL" \in child[i].signals
    /\ child' = [child EXCEPT ![i] = [@ EXCEPT !.proc = "exited"]]
    /\ UNCHANGED <<hookSettings, request, pc, call, settled, trace, sbIn, sbOut, mp, idle, gen, tr, ni>>

\* child.on('error'), lines 277-283, for a process that could not be spawned;
\* Node then closes the child with a negative exit code
EmitError(i) ==
    /\ i \in 1..Len(child)
    /\ child[i].spawn = "errorNT"
    /\ ~child[i].errorSeen
    /\ child' = [child EXCEPT ![i] =
                   [Resolve(ClearTimeout(@), ErrorResult(@.message)) EXCEPT
                      !.errorSeen = TRUE, !.proc = "exited"]]
    /\ settled' = IF child[i].promise = "pending" THEN Append(settled, i) ELSE settled
    /\ UNCHANGED <<hookSettings, request, pc, call, trace, sbIn, sbOut, mp, idle, gen, tr, ni>>

\* the exit code and output a closing process can show
RunsAtClose(c) ==
    IF c.spawn = "errorNT" THEN {FailedSpawnRun}
    ELSE IF "SIGKILL" \in c.signals THEN {r \in SignalledRuns : r.code = "null"}
    ELSE IF c.timedOut THEN SignalledRuns
    ELSE ChildRuns

\* The 'data' handlers (lines 208-218) followed by child.on('close'), lines
\* 220-275: all the process wrote has been appended to stdout and stderr when
\* 'close' is emitted with the exit code.
EmitClose(i) ==
    /\ i \in 1..Len(child)
    /\ child[i].proc = "exited"
    /\ \E run \in RunsAtClose(child[i]) :
          LET c == [child[i] EXCEPT !.code = run.code, !.stdout = run.stdout,
                                    !.stderr = run.stderr]
          IN  child' = [child EXCEPT ![i] =
                          [Resolve(ClearTimeout(c), CloseResult(c)) EXCEPT
                             !.proc = "closed"]]
    /\ settled' = IF child[i].promise = "pending" THEN Append(settled, i) ELSE settled
    /\ UNCHANGED <<hookSettings, request, pc, call, trace, sbIn, sbOut, mp, idle, gen, tr, ni>>

\* lines 91-105: every hook promise has settled, the results are assembled
\* and returned
HooksReturn ==
    /\ call.status = "awaiting"
    /\ Awaited(child) # "awaiting"
    /\ call' = [call EXCEPT
                  !.status = Awaited(child),
                  !.results = IF Awaited(child) = "returned"
                              THEN Assemble(child, settled) ELSE <<>>]
    /\ UNCHANGED <<hookSettings, request, pc, child, settled, trace, sbIn, sbOut, mp, idle, gen, tr, ni>>

----------------------------------------------------------------------------
(* executeToolCall (nonInteractiveToolExecutor.ts) and direct callers *)

\* lines 34-38: a HookExecutor exists only when hooks are configured
HasHookExecutor == \E e \in EventNames : hookSettings[e] # <<>>

ToolInput == [tool_name |-> request.tool_name]

\* lines 29-70 and 72-86: tool lookup, then the PreToolUse hooks
ExecuteToolCallStart ==
    /\ pc = "start"
    /\ request.op = "toolCall"
    /\ IF request.tool_name.text \notin Registry
       THEN /\ pc' = "done"
            /\ trace' = Append(trace, "notFound")
            /\ UNCHANGED <<call, child, settled>>
       ELSE IF HasHookExecutor
       THEN /\ \E chs \in SpawnOutcomes("PreToolUse", ToolInput) :
                  StartCall("PreToolUse", ToolInput, NoOptions, chs)
            /\ pc' = "preToolUse"
            /\ trace' = Append(trace, "PreToolUse")
       ELSE /\ pc' = "preToolUse"
            /\ UNCHANGED <<call, child, settled, trace>>
    /\ UNCHANGED <<hookSettings, request, sbIn, sbOut, mp, idle, gen, tr, ni>>

\* (mutation: the PreToolUse hooks are started but not awaited)
PreToolUseDone_NoAwait == TRUE

\* lines 76-86: the await of the PreToolUse hooks is over; its value is not
\* looked at
PreToolUseDone ==
    \/ ~HasHookExecutor
    \/ call.status \in {"returned", "rejected"}

\* lines 89-94: tool.execute is called
ToolExecuteStart ==
    /\ pc = "preToolUse"
    /\ PreToolUseDone
    /\ pc' = "executing"
    /\ trace' = Append(trace, "execute")
    /\ UNCHANGED <<hookSettings, request, call, child, settled, sbIn, sbOut, mp, idle, gen, tr, ni>>

\* the payload of the PostToolUse hooks: the tool's name with `result` (lines
\* 114-121) or with `error` (lines 156-163)
PostToolInput(outcome) == [tool_name |-> request.tool_name, outcome |-> outcome]

\* a PostToolUse executeHooks call, lines 112-125 and 154-167
StartPostToolUse(outcome) ==
    IF HasHookExecutor
    THEN /\ \E chs \in SpawnOutcomes("PostToolUse", PostToolInput(outcome)) :
               StartCall("PostToolUse", PostToolInput(outcome), NoOptions, chs)
         /\ trace' = Append(trace, "PostToolUse")
    ELSE UNCHANGED <<call, child, settled, trace>>

\* lines 90-125: tool.execute returned; log, then the PostToolUse hooks
ToolExecuteReturns ==
    /\ pc = "executing"
    /\ StartPostToolUse("result")
    /\ pc' = "postToolUse"
    /\ UNCHANGED <<hookSettings, request, sbIn, sbOut, mp, idle, gen, tr, ni>>

\* lines 139-167: tool.execute threw; log, then the PostToolUse hooks
ToolExecuteThrows ==
    /\ pc = "executing"
    /\ StartPostToolUse("error")
    /\ pc' = "postToolUseError"
    /\ UNCHANGED <<hookSettings, request, sbIn, sbOut, mp, idle, gen, tr, ni>>

PostToolUseDone == ~HasHookExecutor \/ call.status \in {"returned", "rejected"}

\* lines 127-138: the function response is built and returned
ConvertReturns ==
    /\ pc = "postToolUse"
    /\ PostToolUseDone
    /\ pc' = "done"
    /\ trace' = Append(trace, "response")
    /\ UNCHANGED <<hookSettings, request, call, child, settled, sbIn, sbOut, mp, idle, gen, tr, ni>>

\* lines 127-131 and 139-167: convertToFunctionResponse throws inside the
\* try block, so the catch block runs, PostToolUse hooks included
ConvertThrows ==
    /\ pc = "postToolUse"
    /\ PostToolUseDone
    /\ StartPostToolUse("error")
    /\ pc' = "postToolUseError"
    /\ UNCHANGED <<hookSettings, request, sbIn, sbOut, mp, idle, gen, tr, ni>>

\* lines 169-182: the error response is returned
ReturnError ==
    /\ pc = "postToolUseError"
    /\ PostToolUseDone
    /\ pc' = "done"
    /\ trace' = Append(trace, "errorResponse")
    /\ UNCHANGED <<hookSettings, request, call, child, settled, sbIn, sbOut, mp, idle, gen, tr, ni>>

\* a direct call of executeHooks (useNotificationHook.ts line 31, the tests)
DirectCall ==
    /\ pc = "start"
    /\ request.op = "executeHooks"
    /\ \E chs \in SpawnOutcomes(request.event, ToolInput) :
          StartCall(request.event, ToolInput, request.options, chs)
    /\ pc' = "direct"
    /\ trace' = Append(trace, request.event)
    /\ UNCHANGED <<hookSettings, request, sbIn, sbOut, mp, idle, gen, tr, ni>>

DirectCallDone ==
    /\ pc = "direct"
    /\ call.status \in {"returned", "rejected"}
    /\ pc' = "done"
    /\ UNCHANGED <<hookSettings, request, call, child, settled, trace, sbIn, sbOut, mp, idle, gen, tr, ni>>

----------------------------------------------------------------------------
(* HookExecutor.matchesPattern called directly: the idle value of mp *)

\* no translator object is in use
NoTranslator == [kind |-> "none"]

\* runNonInteractive is not running
NoSession == [pc |-> "none"]

NoMatchCall ==
    [pattern |-> undefined, input |-> [tool_name |-> undefined],
     done |-> FALSE, out |-> FALSE]

----------------------------------------------------------------------------
(* useIdleStopHook (ui/hooks/useIdleStopHook.ts) *)

\* enum StreamingState
StreamingStates == {"Idle", "Responding", "WaitingForConfirmation"}

\* the `config` argument: null, or a Config object.  Two of the objects have
\* Stop hooks in getHooks(), one has hooks but no Stop entry.
Configs == {"null", "configA", "configB", "configNoStop"}

\* hooks && hooks.Stop  (lines 36-40)
HasStopHooks(cfg) == cfg \in {"configA", "configB"}

\* setTimeout(..., 1000), line 89
IDLE_STABLE_MS == 1000

\* amounts by which time advances between two events
Delays == {250, 500, 1000}

Min(a, b) == IF a < b THEN a ELSE b

\* The refs of lines 20-22 before the first effect ran, the props, and the
\* bookkeeping of what happened: `stableFor` is the time since the
\* streaming state last changed and `from` the state it changed from;
\* `responses` counts the changes from Responding to Idle, `entered` the
\* executeStopHook runs since the last of them that went past line 40,
\* `inFlight` those of them not yet past line 60, `executions` the
\* executeHooks('Stop') calls, and `enteredAt` the stableFor, from and
\* streaming state at the latest timer callback that called executeStopHook.
NotMounted ==
    [mounted        |-> FALSE,
     streamingState |-> "Idle",
     config         |-> "null",
     prev           |-> "Idle",
     isExecuting    |-> FALSE,
     timer          |-> "none",
     closure        |-> [streamingState |-> "Idle", config |-> "null"],
     elapsed        |-> 0,
     stableFor      |-> 0,
     from           |-> "Idle",
     responses      |-> 0,
     entered        |-> 0,
     inFlight       |-> 0,
     executions     |-> 0,
     enteredAt      |-> [stableFor |-> 0, from |-> "Idle", streamingState |-> "Idle"]]

\* (mutation: a pending timeout is not cleared when the effect re-runs)
Rerender_KeepTimer(h, s, cfg) ==
    LET arm == /\ h.prev = "Responding"
               /\ s = "Idle"
               /\ ~h.isExecuting
               /\ cfg # "null"
    IN  [h EXCEPT
           !.streamingState = s,
           !.config  = cfg,
           !.timer   = IF arm THEN "armed" ELSE @,
           !.closure = IF arm THEN [streamingState |-> s, config |-> cfg] ELSE @,
           !.elapsed = IF arm THEN 0 ELSE @,
           !.prev    = s]

\* (mutation: the previous state is remembered only while not Idle)
Rerender_KeepPrev(h, s, cfg) ==
    LET arm == /\ h.prev = "Responding"
               /\ s = "Idle"
               /\ ~h.isExecuting
               /\ cfg # "null"
    IN  [h EXCEPT
           !.streamingState = s,
           !.config  = cfg,
           !.timer   = IF arm THEN "armed" ELSE "none",
           !.closure = IF arm THEN [streamingState |-> s, config |-> cfg] ELSE @,
           !.elapsed = 0,
           !.prev    = IF s = "Idle" THEN @ ELSE s]

\* One run of the effect for the props (s, cfg), preceded by the cleanup of
\* the previous run (lines 95-100): the pending timeout is cleared (lines
\* 28-31), a new one is set after a change from Responding to Idle (lines
\* 76-90), and the state is remembered (line 92).
Rerender(h, s, cfg) ==
    LET arm == /\ h.prev = "Responding"
               /\ s = "Idle"
               /\ ~h.isExecuting
               /\ cfg # "null"
    IN  [h EXCEPT
           !.streamingState = s,
           !.config  = cfg,
           !.timer   = IF arm THEN "armed" ELSE "none",
           !.closure = IF arm THEN [streamingState |-> s, config |-> cfg] ELSE @,
           !.elapsed = 0,
           !.prev    = s]

IdleUnchanged ==
    UNCHANGED <<hookSettings, request, call, child, settled, trace, sbIn, sbOut,
                mp, gen, tr, ni>>

\* the component is mounted: the UI starts Idle, the effect runs once
IdleMount ==
    /\ ~idle.mounted
    /\ pc = "idleStart"
    /\ \E cfg \in Configs :
          idle' = Rerender([idle EXCEPT !.mounted = TRUE], "Idle", cfg)
    /\ pc' = "idleMounted"
    /\ IdleUnchanged

\* the component is unmounted: the cleanup of lines 95-100 runs
IdleUnmount ==
    /\ idle.mounted
    /\ idle' = [idle EXCEPT !.mounted = FALSE, !.timer = "none"]
    /\ pc' = "idleUnmounted"
    /\ IdleUnchanged

\* the streamingState prop changes and the effect re-runs
StreamingStateChanges ==
    /\ idle.mounted
    /\ \E s \in StreamingStates \ {idle.streamingState} :
          LET completes == idle.streamingState = "Responding" /\ s = "Idle" IN
          /\ completes => idle.responses < MaxResponses
          /\ idle' = Rerender([idle EXCEPT
                                 !.stableFor = 0,
                                 !.from      = idle.streamingState,
                                 !.responses = IF completes THEN @ + 1 ELSE @,
                                 !.entered   = IF completes THEN 0 ELSE @],
                              s, idle.config)
    /\ UNCHANGED pc
    /\ IdleUnchanged

\* the config prop changes and the effect re-runs
ConfigChanges ==
    /\ idle.mounted
    /\ \E cfg \in Configs \ {idle.config} :
          idle' = Rerender(idle, idle.streamingState, cfg)
    /\ UNCHANGED pc
    /\ IdleUnchanged

\* time advances; a timeout that is due runs before time advances further
TimePasses ==
    /\ pc \in {"idleMounted", "idleUnmounted"}
    /\ \E d \in Delays :
          /\ idle.timer = "armed" => idle.elapsed + d <= IDLE_STABLE_MS
          /\ idle.timer = "armed" \/ idle.stableFor < IDLE_STABLE_MS
          /\ idle' = [idle EXCEPT
                         !.elapsed   = IF idle.timer = "armed" THEN @ + d ELSE @,
                         !.stableFor = Min(@ + d, IDLE_STABLE_MS)]
    /\ UNCHANGED pc
    /\ IdleUnchanged

\* lines 33-41: executeStopHook up to its first await
executeStopHookStart(h, cfg) ==
    IF cfg # "null" /\ HasStopHooks(cfg)
    THEN [h EXCEPT
            !.isExecuting = TRUE,
            !.inFlight    = @ + 1,
            !.entered     = @ + 1,
            !.enteredAt   = [stableFor |-> h.stableFor, from |-> h.from,
                             streamingState |-> h.streamingState]]
    ELSE h

\* the timeout callback, lines 84-89
IdleTimerFires ==
    /\ idle.timer = "armed"
    /\ idle.elapsed >= IDLE_STABLE_MS
    /\ idle' = IF idle.closure.streamingState = "Idle" /\ ~idle.isExecuting
               THEN executeStopHookStart([idle EXCEPT !.timer = "none"],
                                         idle.closure.config)
               ELSE [idle EXCEPT !.timer = "none"]
    /\ UNCHANGED pc
    /\ IdleUnchanged

\* lines 44-70: the awaits are over, executeHooks('Stop') is called and not
\* awaited, the finally block runs
StopHookExecutes ==
    /\ idle.inFlight > 0
    /\ idle' = [idle EXCEPT
                   !.inFlight    = @ - 1,
                   !.executions  = @ + 1,
                   !.isExecuting = FALSE]
    /\ UNCHANGED pc
    /\ IdleUnchanged

\* lines 65-70: the import or getTranscriptPath rejects
StopHookInitFails ==
    /\ idle.inFlight > 0
    /\ idle' = [idle EXCEPT !.inFlight = @ - 1, !.isExecuting = FALSE]
    /\ UNCHANGED pc
    /\ IdleUnchanged

IdleInit ==
    /\ hookSettings = NoHooks
    /\ request = [op |-> "useIdleStopHook", event |-> "Stop", tool_name |-> undefined,
                  options |-> NoOptions]
    /\ pc = "idleStart"
    /\ call = NoCall
    /\ child = <<>>
    /\ settled = <<>>
    /\ trace = <<>>
    /\ sbIn = <<>>
    /\ sbOut = [block |-> FALSE, reason |-> undefined]
    /\ mp = NoMatchCall
    /\ idle = NotMounted
    /\ gen = [status |-> "none"]
    /\ tr = NoTranslator
    /\ ni = NoSession

IdleNext ==
    \/ IdleMount
    \/ IdleUnmount
    \/ StreamingStateChanges
    \/ ConfigChanges
    \/ TimePasses
    \/ IdleTimerFires
    \/ StopHookExecutes
    \/ StopHookInitFails

IdleSpec == IdleInit /\ [][IdleNext]_vars

----------------------------------------------------------------------------
(* Content generators *)

(* OpenAICompatibleContentGenerator and AnthropicContentGenerator
   (debug_openai_config.js), LiteLLMGeminiContentGenerator
   (litellmGeminiContentGenerator.ts) and CustomEndpointContentGenerator
   (contentGenerator.ts).

   A provider stream is taken line by line; the text of a string is a
   sequence of tokens, so that concatenation keeps the order of arrival. *)

\* the three provider translators, and the generator for custom endpoints
Translators == {"openai", "anthropic", "litellm"}

Generators == Translators \cup {"custom"}

\* x || 0 on a count
NumOr0(v) == IF TruthyNum(v) THEN v.num ELSE 0

\* `${index}`
IndexText(i) == IF i = 0 THEN "0" ELSE "1"

\* JSON.parse on the argument texts that occur: the tokens of the text, in
\* order, must spell one JSON value
ArgsParse(t) ==
    CASE t = <<"{\"a\"", ":1}">> -> [ok |-> TRUE,  value |-> "{a:1}"]
      [] t = <<"{\"a\":1}">>     -> [ok |-> TRUE,  value |-> "{a:1}"]
      [] t = <<"{}">>            -> [ok |-> TRUE,  value |-> "{}"]
      [] OTHER                   -> [ok |-> FALSE, value |-> "SyntaxError"]

\* the object {}
EmptyArgs == "{}"

FunctionCall(id, name, args) == [id |-> id, name |-> name, args |-> args]

\* usageMetadata of a response
Usage(p, c, t) ==
    [promptTokenCount |-> p, candidatesTokenCount |-> c, totalTokenCount |-> t]

ZeroUsage == Usage(Num(0), Num(0), Num(0))

\* a GenerateContentResponse; usageMetadata is a sequence of length 0 when
\* the field is absent
Response(text, calls, finishReason, usage) ==
    [text |-> text, functionCalls |-> calls, finishReason |-> finishReason,
     usageMetadata |-> usage]

\* what a conversion hands back: a response, null (no response), or an
\* exception
Returned(r) == [threw |-> FALSE, error |-> "", response |-> <<r>>]

ReturnedNull == [threw |-> FALSE, error |-> "", response |-> <<>>]

Threw(e) == [threw |-> TRUE, error |-> e, response |-> <<>>]

----------------------------------------------------------------------------
(* Provider data *)

\* the `usage` object of a provider response: absent, complete, without
\* total, or all zero
ProviderUsages ==
    { [present |-> FALSE, prompt |-> undefinedNum, completion |-> undefinedNum,
       total |-> undefinedNum],
      [present |-> TRUE, prompt |-> Num(5), completion |-> Num(3), total |-> Num(8)],
      [present |-> TRUE, prompt |-> Num(5), completion |-> Num(3), total |-> undefinedNum],
      [present |-> TRUE, prompt |-> Num(0), completion |-> Num(0), total |-> Num(0)] }

NoUsage == CHOOSE u \in ProviderUsages : ~u.present

\* one entry of tool_calls (OpenAI wire format), one tool_use block
\* (Anthropic), or the single function_call field
ToolCall(index, id, name, arguments) ==
    [index |-> index, id |-> id, name |-> name, arguments |-> arguments]

\* the bodies of a non-streaming provider response
ProviderBodies ==
    { [choices |-> TRUE,  content |-> Str(<<"Hel", "lo">>), tool_calls |-> <<>>,
       function_call |-> <<>>],
      [choices |-> TRUE,  content |-> undefined,
       tool_calls |-> <<ToolCall(0, Str(<<"call_1">>), Str(<<"f">>), Str(<<"{\"a\":1}">>))>>,
       function_call |-> <<>>],
      [choices |-> TRUE,  content |-> Str(<<"Hel">>),
       tool_calls |-> <<ToolCall(0, Str(<<"call_1">>), Str(<<"f">>), Str(<<"{bad">>)),
                        ToolCall(1, Str(<<"call_2">>), Str(<<"g">>), Str(<<"{}">>))>>,
       function_call |-> <<>>],
      [choices |-> TRUE,  content |-> undefined, tool_calls |-> <<>>,
       function_call |-> <<ToolCall(0, undefined, Str(<<"h">>), Str(<<"{bad">>))>>],
      [choices |-> FALSE, content |-> undefined, tool_calls |-> <<>>,
       function_call |-> <<>>] }

\* the events of a provider stream, one per `data:` line
StreamEvent(type, text, tc) == [type |-> type, text |-> text, tc |-> tc]

NoToolCall == ToolCall(0, undefined, undefined, undefined)

\* OpenAI wire format: text deltas, tool-call deltas (the first chunk of a
\* call carries id and name, later ones argument fragments), the single
\* function_call field, and a line that is not JSON
OpenAIEvents ==
    { StreamEvent("text", Str(<<"Hel">>), NoToolCall),
      StreamEvent("text", Str(<<"lo">>), NoToolCall),
      StreamEvent("tool", undefined, ToolCall(0, Str(<<"call_1">>), Str(<<"f">>), undefined)),
      StreamEvent("tool", undefined, ToolCall(0, undefined, undefined, Str(<<"{\"a\"">>))),
      StreamEvent("tool", undefined, ToolCall(0, undefined, undefined, Str(<<":1}">>))),
      StreamEvent("tool", undefined, ToolCall(1, Str(<<"call_2">>), Str(<<"g">>), Str(<<"{bad">>))),
      StreamEvent("function_call", undefined, ToolCall(0, undefined, Str(<<"h">>), Str(<<"{}">>))),
      StreamEvent("malformed", undefined, NoToolCall) }

\* Anthropic wire format: text_delta, content_block_start with a tool_use
\* block, input_json_delta, message_stop, and a line that is not JSON
AnthropicEvents ==
    { StreamEvent("text", Str(<<"Hel">>), NoToolCall),
      StreamEvent("text", Str(<<"lo">>), NoToolCall),
      StreamEvent("tool_start", undefined, ToolCall(0, Str(<<"call_1">>), Str(<<"f">>), undefined)),
      StreamEvent("tool_start", undefined, ToolCall(1, Str(<<"call_2">>), Str(<<"g">>), undefined)),
      StreamEvent("tool_input", undefined, ToolCall(0, undefined, undefined, Str(<<"{\"a\"">>))),
      StreamEvent("tool_input", undefined, ToolCall(0, undefined, undefined, Str(<<":1}">>))),
      StreamEvent("tool_input", undefined, ToolCall(1, undefined, undefined, Str(<<"{bad">>))),
      StreamEvent("message_stop", undefined, NoToolCall),
      StreamEvent("malformed", undefined, NoToolCall) }

StreamEvents(kind) == IF kind = "anthropic" THEN AnthropicEvents ELSE OpenAIEvents

\* the content of a non-streaming Anthropic response: text blocks and
\* tool_use blocks, whose input is an object already
AnthropicBodies ==
    { [text |-> Str(<<"Hel", "lo">>), tool_use |-> <<>>],
      [text |-> undefined,
       tool_use |-> <<[id |-> Str(<<"call_1">>), name |-> Str(<<"f">>), input |-> "{a:1}"]>>],
      [text |-> Str(<<"Hel">>),
       tool_use |-> <<[id |-> Str(<<"call_1">>), name |-> Str(<<"f">>), input |-> "undefined"],
                      [id |-> Str(<<"call_2">>), name |-> Str(<<"g">>), input |-> "{}"]>>] }

----------------------------------------------------------------------------
(* Conversion of non-streaming responses *)

\* JSON.parse(arguments) inside try/catch, args: {} on failure
\* (debug_openai_config.js lines 1359-1379)
ParsedOrEmpty(arguments) ==
    IF ArgsParse(arguments.text).ok THEN ArgsParse(arguments.text).value ELSE EmptyArgs

\* (mutation: a parse failure drops the tool call's name)
DirectToolCall_LosesName(tc) ==
    IF ArgsParse(tc.arguments.text).ok
    THEN FunctionCall(tc.id, tc.name, ArgsParse(tc.arguments.text).value)
    ELSE FunctionCall(tc.id, undefined, EmptyArgs)

DirectToolCall(tc) == FunctionCall(tc.id, tc.name, ParsedOrEmpty(tc.arguments))

\* `gemini_${Date.now()}`
SyntheticGeminiId == Str(<<"gemini_", "now">>)

\* lines 1398-1402: usage counts, each defaulting to 0
OpenAIUsage(u) ==
    Usage(Num(NumOr0(u.prompt)), Num(NumOr0(u.completion)), Num(NumOr0(u.total)))

\* OpenAICompatibleContentGenerator.convertFromOpenAIFormat, isStream = false
convertFromOpenAIFormat(data) ==
    IF ~data.body.choices
    THEN Threw("No choices in response")
    ELSE Returned(Response(Or(data.body.content, Str(<<>>)),
                           [k \in 1..Len(data.body.tool_calls) |->
                              DirectToolCall(data.body.tool_calls[k])],
                           "STOP",
                           <<OpenAIUsage(data.usage)>>))

\* LiteLLMGeminiContentGenerator.convertFromLiteLLMFormat, isStream = false
convertFromLiteLLMFormat(data) ==
    IF ~data.body.choices
    THEN Threw("No choices in LiteLLM response")
    ELSE Returned(Response(Or(data.body.content, Str(<<>>)),
                           [k \in 1..Len(data.body.tool_calls) |->
                              DirectToolCall(data.body.tool_calls[k])]
                             \o [k \in 1..Len(data.body.function_call) |->
                                   FunctionCall(SyntheticGeminiId,
                                                data.body.function_call[k].name,
                                                ParsedOrEmpty(data.body.function_call[k].arguments))],
                           "STOP",
                           <<OpenAIUsage(data.usage)>>))

\* lines 1847-1851: the total is computed
AnthropicUsage(u) ==
    Usage(Num(NumOr0(u.prompt)), Num(NumOr0(u.completion)),
          Num(NumOr0(u.prompt) + NumOr0(u.completion)))

\* AnthropicContentGenerator.convertFromAnthropicFormat, isStream = false
convertFromAnthropicFormat(data) ==
    Returned(Response(Or(data.body.text, Str(<<>>)),
                      [k \in 1..Len(data.body.tool_use) |->
                         FunctionCall(data.body.tool_use[k].id, data.body.tool_use[k].name,
                                      IF data.body.tool_use[k].input = "undefined"
                                      THEN EmptyArgs ELSE data.body.tool_use[k].input)],
                      IF data.body.tool_use # <<>> THEN "tool_calls" ELSE "STOP",
                      <<AnthropicUsage(data.usage)>>))

\* CustomEndpointContentGenerator.convertOpenAIToGemini (contentGenerator.ts
\* lines 85-148): JSON.parse is not guarded, function calls carry no id, and
\* usageMetadata is set only when the provider sent usage
convertOpenAIToGemini(data) ==
    IF ~data.body.choices
    THEN Threw("No choices in OpenAI response")
    ELSE IF \E k \in 1..Len(data.body.tool_calls) :
               ~ArgsParse(data.body.tool_calls[k].arguments.text).ok
    THEN Threw("SyntaxError")
    ELSE Returned(Response(Or(data.body.content, Str(<<>>)),
                           [k \in 1..Len(data.body.tool_calls) |->
                              FunctionCall(undefined, data.body.tool_calls[k].name,
                                           ArgsParse(data.body.tool_calls[k].arguments.text).value)],
                           "OTHER",
                           IF data.usage.present
                           THEN <<Usage(data.usage.prompt, data.usage.completion,
                                        data.usage.total)>>
                           ELSE <<>>))

\* the provider responses a generator can receive
ProviderData(kind) ==
    [body : IF kind = "anthropic" THEN AnthropicBodies ELSE ProviderBodies,
     usage : ProviderUsages]

ConvertSingle(kind, data) ==
    CASE kind = "openai"    -> convertFromOpenAIFormat(data)
      [] kind = "litellm"   -> convertFromLiteLLMFormat(data)
      [] kind = "anthropic" -> convertFromAnthropicFormat(data)
      [] OTHER              -> convertOpenAIToGemini(data)

----------------------------------------------------------------------------
(* Streaming: the tool-call accumulator and the per-line conversions *)

\* toolCallAccumulator (a Map, in insertion order) and indexToIdMap
NoAccumulator == [acc |-> <<>>, map |-> [i \in {0, 1} |-> undefined]]

HasKey(acc, key) == \E k \in 1..Len(acc) : acc[k].key = key

\* debug_openai_config.js lines 1328-1357 (litellmGeminiContentGenerator.ts
\* lines 347-376): one tool_calls entry of a streamed delta
AccumulateToolCall(st, tc) ==
    LET map1   == IF Truthy(tc.id) THEN [st.map EXCEPT ![tc.index] = tc.id] ELSE st.map
        callId == IF Truthy(map1[tc.index]) THEN map1[tc.index]
                  ELSE IF Truthy(tc.id) THEN tc.id
                  ELSE Str(<<"call_", IndexText(tc.index)>>)
        acc1   == IF HasKey(st.acc, callId) THEN st.acc
                  ELSE Append(st.acc, [key |-> callId, id |-> callId,
                                       name |-> Or(tc.name, Str(<<>>)),
                                       arguments |-> <<>>])
    IN  [acc |-> [k \in 1..Len(acc1) |->
                    IF acc1[k].key = callId
                    THEN [acc1[k] EXCEPT
                            !.name = IF Truthy(tc.name) THEN tc.name ELSE @,
                            !.arguments = IF Truthy(tc.arguments)
                                          THEN @ \o tc.arguments.text ELSE @]
                    ELSE acc1[k]],
         map |-> map1]

\* what processing one line leaves behind: the accumulator and, if any, the
\* response to yield
Step(st, yield) == [st |-> st, yield |-> yield]

TextResponse(text) == Response(text, <<>>, "STOP", <<ZeroUsage>>)

\* OpenAICompatibleContentGenerator: lines 926-935 with convertFromOpenAIFormat
\* (isStream = true) for one `data:` line.  A line that is not JSON is
\* skipped; a delta without text yields nothing.
OpenAIStreamLine(st, ev) ==
    CASE ev.type = "text" -> Step(st, <<TextResponse(ev.text)>>)
      [] ev.type = "tool" -> Step(AccumulateToolCall(st, ev.tc), <<>>)
      [] OTHER -> Step(st, <<>>)

\* LiteLLMGeminiContentGenerator: lines 156-164 with convertFromLiteLLMFormat
\* (isStream = true); a function_call field is converted at once
LiteLLMStreamLine(st, ev) ==
    CASE ev.type = "text" -> Step(st, <<TextResponse(ev.text)>>)
      [] ev.type = "tool" -> Step(AccumulateToolCall(st, ev.tc), <<>>)
      [] ev.type = "function_call" ->
            Step(st, <<Response(Str(<<>>),
                                <<FunctionCall(SyntheticGeminiId, ev.tc.name,
                                               ParsedOrEmpty(ev.tc.arguments))>>,
                                "STOP", <<ZeroUsage>>)>>)
      [] OTHER -> Step(st, <<>>)

IndexKey(i) == Str(<<"index_", IndexText(i)>>)

\* (mutation: an input_json_delta replaces what was accumulated for its index)
AnthropicStreamLine_InputReplaces(st, ev) ==
    CASE ev.type = "text" -> Step(st, <<TextResponse(ev.text)>>)
      [] ev.type = "tool_start" ->
            Step([st EXCEPT !.acc =
                    IF HasKey(st.acc, IndexKey(ev.tc.index))
                    THEN st.acc
                    ELSE Append(st.acc, [key |-> IndexKey(ev.tc.index), id |-> ev.tc.id,
                                         name |-> ev.tc.name, arguments |-> <<>>])],
                 <<>>)
      [] ev.type = "tool_input" ->
            Step([st EXCEPT !.acc =
                    [k \in 1..Len(st.acc) |->
                       IF st.acc[k].key = IndexKey(ev.tc.index)
                       THEN [st.acc[k] EXCEPT !.arguments = ev.tc.arguments.text]
                       ELSE st.acc[k]]],
                 <<>>)
      [] OTHER -> Step(st, <<>>)

\* AnthropicContentGenerator.handleAnthropicStreamingEvent (lines 1864-1912)
AnthropicStreamLine(st, ev) ==
    CASE ev.type = "text" -> Step(st, <<TextResponse(ev.text)>>)
      [] ev.type = "tool_start" ->
            LET entry == [key |-> IndexKey(ev.tc.index), id |-> ev.tc.id,
                          name |-> ev.tc.name, arguments |-> <<>>]
            IN  Step([st EXCEPT !.acc =
                        IF HasKey(st.acc, entry.key)
                        THEN [k \in 1..Len(st.acc) |->
                                IF st.acc[k].key = entry.key THEN entry ELSE st.acc[k]]
                        ELSE Append(st.acc, entry)],
                     <<>>)
      [] ev.type = "tool_input" ->
            Step([st EXCEPT !.acc =
                    [k \in 1..Len(st.acc) |->
                       IF st.acc[k].key = IndexKey(ev.tc.index)
                       THEN [st.acc[k] EXCEPT !.arguments = @ \o ev.tc.arguments.text]
                       ELSE st.acc[k]]],
                 <<>>)
      [] OTHER -> Step(st, <<>>)

\* one accumulated call: arguments parsed, {} when empty or malformed
AccumulatedCall(entry) ==
    FunctionCall(entry.id, entry.name,
                 IF entry.arguments = <<>> THEN EmptyArgs
                 ELSE IF ArgsParse(entry.arguments).ok
                 THEN ArgsParse(entry.arguments).value
                 ELSE EmptyArgs)

\* convertAccumulatedToolCallsToGemini and
\* convertAccumulatedAnthropicToolCallsToGemini: the final
\* response, or nothing when no call was accumulated
convertAccumulatedToolCallsToGemini(acc) ==
    IF acc = <<>> THEN <<>>
    ELSE <<Response(Str(<<>>), [k \in 1..Len(acc) |-> AccumulatedCall(acc[k])],
                    "tool_calls", <<ZeroUsage>>)>>

\* whether the accumulated tool calls are converted and yielded when the
\* stream ends: at the `[DONE]` line (lines 915-924) for the OpenAI wire
\* format, after the read loop (lines 1608-1615) for Anthropic
FlushAtEnd(kind, how) ==
    IF kind = "anthropic" THEN how = "EOF" ELSE how = "DONE"

\* (mutation: the accumulated calls are yielded as soon as a line adds to
\* them)
StreamLine_FlushEarly(kind, st, ev) ==
    LET r == CASE kind = "openai"  -> OpenAIStreamLine(st, ev)
               [] kind = "litellm" -> LiteLLMStreamLine(st, ev)
               [] OTHER            -> AnthropicStreamLine(st, ev)
    IN  IF r.yield = <<>> /\ r.st # st
        THEN Step(r.st, convertAccumulatedToolCallsToGemini(r.st.acc))
        ELSE r

\* (mutation: a line that is not JSON clears the accumulator)
StreamLine_MalformedResets(kind, st, ev) ==
    IF ev.type = "malformed" THEN Step(NoAccumulator, <<>>)
    ELSE CASE kind = "openai"  -> OpenAIStreamLine(st, ev)
           [] kind = "litellm" -> LiteLLMStreamLine(st, ev)
           [] OTHER            -> AnthropicStreamLine(st, ev)

\* one `data:` line of the stream, by generator
StreamLine(kind, st, ev) ==
    CASE kind = "openai"  -> OpenAIStreamLine(st, ev)
      [] kind = "litellm" -> LiteLLMStreamLine(st, ev)
      [] OTHER            -> AnthropicStreamLine(st, ev)

----------------------------------------------------------------------------
(* One generateContent / generateContentStream call *)

NoStream == [status |-> "none"]

NoData == [body |-> [choices |-> FALSE], usage |-> NoUsage]

\* a generator before its call: `timeout` says whether config.timeout is set
GenIdle(kind, mode, timeout) ==
    [status   |-> "idle",
     kind     |-> kind,
     mode     |-> mode,
     timeout  |-> timeout,
     abortRaised          |-> FALSE,
     abortedWhileAwaiting |-> FALSE,
     error    |-> "",
     data     |-> NoData,
     result   |-> <<>>,
     received |-> <<>>,
     ended    |-> "",
     st       |-> NoAccumulator,
     yielded  |-> <<>>]

\* The `signal` option of fetch: the caller's request.config.abortSignal
\* (contentGenerator.ts lines 203 and 271), or AbortSignal.timeout when
\* config.timeout is set (debug_openai_config.js lines 829, 870, 1502, 1547;
\* litellmGeminiContentGenerator.ts lines 52, 100), or none
FetchSignal(kind, timeout) ==
    IF kind = "custom" THEN "abortSignal"
    ELSE IF timeout THEN "timeout"
    ELSE "undefined"

GenUnchanged ==
    UNCHANGED <<hookSettings, request, call, child, settled, trace, sbIn, sbOut,
                mp, idle, tr, ni>>

Awaiting == gen.status \in {"fetching", "streaming"}

\* generateContent or generateContentStream is called: the request is
\* converted and fetch is awaited
GenerateCall ==
    /\ pc = "genStart"
    /\ gen.status = "idle"
    /\ gen' = [gen EXCEPT !.status = "fetching"]
    /\ pc' = "genCalled"
    /\ GenUnchanged

\* The caller raises request.config.abortSignal while the generator awaits
\* the provider.  A fetch that was given this signal rejects at once.
CallerAborts ==
    /\ Awaiting
    /\ ~gen.abortRaised
    /\ gen' = IF FetchSignal(gen.kind, gen.timeout) = "abortSignal"
              THEN [gen EXCEPT !.abortRaised = TRUE, !.abortedWhileAwaiting = TRUE,
                               !.status = "failed", !.error = "AbortError"]
              ELSE [gen EXCEPT !.abortRaised = TRUE, !.abortedWhileAwaiting = TRUE]
    /\ UNCHANGED pc
    /\ GenUnchanged

\* AbortSignal.timeout(config.timeout) fires
FetchTimesOut ==
    /\ Awaiting
    /\ FetchSignal(gen.kind, gen.timeout) = "timeout"
    /\ gen' = [gen EXCEPT !.status = "failed", !.error = "TimeoutError"]
    /\ UNCHANGED pc
    /\ GenUnchanged

\* the provider answers with a status that is not 2xx
FetchFails ==
    /\ gen.status = "fetching"
    /\ gen' = [gen EXCEPT !.status = "failed", !.error = "HTTP"]
    /\ UNCHANGED pc
    /\ GenUnchanged

\* generateContent: the provider's response is converted and returned
FetchReturns ==
    /\ gen.status = "fetching"
    /\ gen.mode = "single"
    /\ \E data \in ProviderData(gen.kind) :
          LET r == ConvertSingle(gen.kind, data) IN
          gen' = [gen EXCEPT
                    !.data   = data,
                    !.status = IF r.threw THEN "failed" ELSE "done",
                    !.error  = r.error,
                    !.result = r.response]
    /\ UNCHANGED pc
    /\ GenUnchanged

\* generateContentStream: the response has a body, the read loop starts
FetchReturnsStream ==
    /\ gen.status = "fetching"
    /\ gen.mode = "stream"
    /\ gen' = [gen EXCEPT !.status = "streaming"]
    /\ UNCHANGED pc
    /\ GenUnchanged

\* reader.read() delivers one `data:` line
ReaderReads ==
    /\ gen.status = "streaming"
    /\ Len(gen.received) < MaxEvents
    /\ \E ev \in StreamEvents(gen.kind) :
          LET r == StreamLine(gen.kind, gen.st, ev) IN
          gen' = [gen EXCEPT
                    !.received = Append(@, ev),
                    !.st       = r.st,
                    !.yielded  = @ \o r.yield]
    /\ UNCHANGED pc
    /\ GenUnchanged

\* The stream ends: with the line `data: [DONE]` (OpenAI wire format), or by
\* reader.read() reporting done.
StreamEnds ==
    /\ gen.status = "streaming"
    /\ \E how \in (IF gen.kind = "anthropic" THEN {"EOF"} ELSE {"DONE", "EOF"}) :
          gen' = [gen EXCEPT
                    !.status  = "done",
                    !.ended   = how,
                    !.yielded = IF FlushAtEnd(gen.kind, how)
                                THEN @ \o convertAccumulatedToolCallsToGemini(gen.st.acc)
                                ELSE @]
    /\ UNCHANGED pc
    /\ GenUnchanged

GenInit ==
    /\ hookSettings = NoHooks
    /\ request = [op |-> "generate", event |-> "none", tool_name |-> undefined,
                  options |-> NoOptions]
    /\ pc = "genStart"
    /\ call = NoCall
    /\ child = <<>>
    /\ settled = <<>>
    /\ trace = <<>>
    /\ sbIn = <<>>
    /\ sbOut = [block |-> FALSE, reason |-> undefined]
    /\ mp = NoMatchCall
    /\ idle = NotMounted
    /\ gen \in {GenIdle(k, m, t) : k \in Translators, m \in {"single", "stream"},
                                   t \in BOOLEAN}
               \cup {GenIdle("custom", "single", FALSE)}
    /\ tr = NoTranslator
    /\ ni = NoSession

GenNext ==
    \/ GenerateCall
    \/ CallerAborts
    \/ FetchTimesOut
    \/ FetchFails
    \/ FetchReturns
    \/ FetchReturnsStream
    \/ ReaderReads
    \/ StreamEnds

GenSpec == GenInit /\ [][GenNext]_vars

----------------------------------------------------------------------------
(* CustomEndpointContentGenerator.generateContentStream (contentGenerator.ts) *)

\* one `data:` line of the custom endpoint: `typed` says whether the entry of
\* delta.tool_calls has type 'function', `finish` is choice.finish_reason
CustomEvent(type, text, tc, typed, finish) ==
    [type |-> type, text |-> text, tc |-> tc, typed |-> typed, finish |-> finish]

\* OpenAI wire format as servers send it: the first delta of a call has type,
\* id and name, the later ones only argument fragments (some servers repeat
\* the type); finish_reason comes with an empty delta or with the last delta
CustomEvents ==
    { CustomEvent("text", Str(<<"Hel">>), NoToolCall, FALSE, ""),
      CustomEvent("tool", undefined,
                  ToolCall(0, Str(<<"call_1">>), Str(<<"f">>), undefined), TRUE, ""),
      CustomEvent("tool", undefined,
                  ToolCall(0, undefined, undefined, Str(<<"{\"a\"">>)), FALSE, ""),
      CustomEvent("tool", undefined,
                  ToolCall(0, undefined, undefined, Str(<<":1}">>)), FALSE, ""),
      CustomEvent("tool", undefined,
                  ToolCall(0, undefined, undefined, Str(<<"{\"a\":1}">>)), TRUE, ""),
      CustomEvent("tool", undefined,
                  ToolCall(0, undefined, undefined, Str(<<"{\"a\":1}">>)), TRUE,
                  "tool_calls"),
      CustomEvent("tool", undefined,
                  ToolCall(1, Str(<<"call_2">>), Str(<<"g">>), Str(<<"{}">>)), TRUE, ""),
      CustomEvent("finish", undefined, NoToolCall, FALSE, "tool_calls"),
      CustomEvent("malformed", undefined, NoToolCall, FALSE, "") }

\* x || '' on a string
OrEmpty(v) == IF Truthy(v) THEN v.text ELSE <<>>

\* lines 316-328: one entry of delta.tool_calls and accumulatedFunctionCall,
\* which is null (the empty sequence) or one object
CustomAccumulate(acc, ev) ==
    IF ~ev.typed THEN acc
    ELSE IF acc = <<>>
    THEN <<[name |-> OrEmpty(ev.tc.name), arguments |-> OrEmpty(ev.tc.arguments)]>>
    ELSE <<[name      |-> acc[1].name \o OrEmpty(ev.tc.name),
            arguments |-> acc[1].arguments \o OrEmpty(ev.tc.arguments)]>>

\* lines 348-349
CustomFinishReason(finish) ==
    IF finish \in {"stop", "tool_calls"} THEN "STOP" ELSE "undefined"

\* lines 296-368 for one `data:` line: a text delta is yielded; the entries
\* of delta.tool_calls are accumulated, and the call is yielded when the same
\* chunk has finish_reason tool_calls; JSON.parse throwing is caught with the
\* line's other errors, and a chunk without parts yields nothing
CustomStreamLine(acc, ev) ==
    CASE ev.type = "text" ->
            Step(acc, <<Response(ev.text, <<>>, CustomFinishReason(ev.finish), <<>>)>>)
      [] ev.type = "tool" ->
            LET acc1 == CustomAccumulate(acc, ev)
                args == ArgsParse(IF acc1 = <<>> \/ acc1[1].arguments = <<>>
                                  THEN <<"{}">> ELSE acc1[1].arguments)
            IN  IF ev.finish = "tool_calls" /\ acc1 # <<>> /\ args.ok
                THEN Step(acc1, <<Response(Str(<<>>),
                                           <<FunctionCall(undefined, Str(acc1[1].name),
                                                          args.value)>>,
                                           "STOP", <<>>)>>)
                ELSE Step(acc1, <<>>)
      [] OTHER -> Step(acc, <<>>)

\* lines 267-281: the request is posted; the call fails on an HTTP error or
\* a response without body, else the read loop starts
CustomFetchReturns ==
    /\ gen.status = "fetching"
    /\ \E ok \in BOOLEAN :
          gen' = [gen EXCEPT !.status = IF ok THEN "streaming" ELSE "failed",
                             !.error = IF ok THEN "" ELSE "HTTP"]
    /\ UNCHANGED pc
    /\ GenUnchanged

\* lines 289-296: reader.read() delivers one `data:` line
CustomReaderReads ==
    /\ gen.status = "streaming"
    /\ Len(gen.received) < MaxEvents
    /\ \E ev \in CustomEvents :
          LET r == CustomStreamLine(gen.st, ev) IN
          gen' = [gen EXCEPT
                    !.received = Append(@, ev),
                    !.st       = r.st,
                    !.yielded  = @ \o r.yield]
    /\ UNCHANGED pc
    /\ GenUnchanged

\* lines 290-291 and 300-302: the generator returns at `data: [DONE]` or when
\* reader.read() reports done; nothing is yielded then
CustomStreamEnds ==
    /\ gen.status = "streaming"
    /\ \E how \in {"DONE", "EOF"} :
          gen' = [gen EXCEPT !.status = "done", !.ended = how]
    /\ UNCHANGED pc
    /\ GenUnchanged

CustomInit ==
    /\ hookSettings = NoHooks
    /\ request = [op |-> "generate", event |-> "none", tool_name |-> undefined,
                  options |-> NoOptions]
    /\ pc = "customStart"
    /\ call = NoCall
    /\ child = <<>>
    /\ settled = <<>>
    /\ trace = <<>>
    /\ sbIn = <<>>
    /\ sbOut = [block |-> FALSE, reason |-> undefined]
    /\ mp = NoMatchCall
    /\ idle = NotMounted
    /\ gen = [GenIdle("custom", "stream", FALSE) EXCEPT !.status = "fetching",
                                                        !.st = <<>>]
    /\ tr = NoTranslator
    /\ ni = NoSession

CustomNext ==
    \/ CustomFetchReturns
    \/ CustomReaderReads
    \/ CustomStreamEnds

CustomSpec == CustomInit /\ [][CustomNext]_vars

----------------------------------------------------------------------------
(* The read loop of the three streaming translators, chunk by chunk

   The body of the response is a sequence of tokens; "\n" ends a line, and
   the prefix `data: ` is the two tokens "da" and "ta: ", so that a chunk
   can end inside it. *)

\* the lines a provider sends: a text delta, a tool call, a truncated JSON
\* text, the end marker, an `event:` line and the blank line between events
WireLines ==
    { <<"da", "ta: ", "{\"content\":", "\"Hel\"}">>,
      <<"da", "ta: ", "{\"tool\":", "\"f\"}">>,
      <<"da", "ta: ", "{\"content\":">>,
      <<"da", "ta: ", "[DONE]">>,
      <<"event: ", "ping">>,
      <<>> }

\* a body of newline-terminated lines
WireStreams == UNION {[1..n -> WireLines] : n \in 0..MaxEvents}

RECURSIVE Flatten(_)
\* the bytes of a body
Flatten(lines) ==
    IF lines = <<>> THEN <<>> ELSE Head(lines) \o <<"\n">> \o Flatten(Tail(lines))

RECURSIVE SplitNewline(_, _)
\* buffer.split('\n'), `cur` being the piece that is being read
SplitNewline(buffer, cur) ==
    IF buffer = <<>> THEN <<cur>>
    ELSE IF Head(buffer) = "\n" THEN <<cur>> \o SplitNewline(Tail(buffer), <<>>)
    ELSE SplitNewline(Tail(buffer), Append(cur, Head(buffer)))

\* (mutation: what follows the last newline of a chunk is not kept)
TakeLines_DropsRest(buffer) ==
    LET pieces == SplitNewline(buffer, <<>>)
    IN  [lines |-> SubSeq(pieces, 1, Len(pieces) - 1), buffer |-> <<>>]

\* const lines = buffer.split('\n'); buffer = lines.pop() || ''
\* (debug_openai_config.js lines 908-909 and 1582-1583,
\* litellmGeminiContentGenerator.ts lines 138-139)
TakeLines(buffer) ==
    LET pieces == SplitNewline(buffer, <<>>)
    IN  [lines |-> SubSeq(pieces, 1, Len(pieces) - 1), buffer |-> pieces[Len(pieces)]]

\* line.startsWith('data: ')
IsDataLine(line) == Len(line) >= 2 /\ line[1] = "da" /\ line[2] = "ta: "

\* line.slice(6)
DataOf(line) == SubSeq(line, 3, Len(line))

\* JSON.parse(data) as the event it stands for; a text that is not JSON
\* throws, which the loop catches
ParseData(kind, data) ==
    CASE data = <<"{\"content\":", "\"Hel\"}">> ->
            StreamEvent("text", Str(<<"Hel">>), NoToolCall)
      [] data = <<"{\"tool\":", "\"f\"}">> ->
            IF kind = "anthropic"
            THEN StreamEvent("tool_start", undefined,
                             ToolCall(0, Str(<<"call_1">>), Str(<<"f">>), undefined))
            ELSE StreamEvent("tool", undefined,
                             ToolCall(0, Str(<<"call_1">>), Str(<<"f">>),
                                      Str(<<"{\"a\":1}">>)))
      [] OTHER -> StreamEvent("malformed", undefined, NoToolCall)

\* the state of the loop: accumulator, responses yielded, the data texts
\* given to JSON.parse, and whether the generator has returned
LoopState(st, yielded, parsed, returned) ==
    [st |-> st, yielded |-> yielded, parsed |-> parsed, returned |-> returned]

\* the body of `for (const line of lines)` for one line (lines 911-937,
\* 1585-1603; litellmGeminiContentGenerator.ts lines 141-166)
ProcessLine(kind, ls, line) ==
    IF ls.returned \/ ~IsDataLine(line) THEN ls
    ELSE IF kind # "anthropic" /\ DataOf(line) = <<"[DONE]">>
    THEN [ls EXCEPT !.yielded = @ \o convertAccumulatedToolCallsToGemini(ls.st.acc),
                    !.returned = TRUE]
    ELSE LET r == StreamLine(kind, ls.st, ParseData(kind, DataOf(line)))
         IN  [ls EXCEPT !.st = r.st, !.yielded = @ \o r.yield,
                        !.parsed = Append(@, DataOf(line))]

RECURSIVE ProcessLines(_, _, _)
ProcessLines(kind, ls, lines) ==
    IF lines = <<>> THEN ls
    ELSE ProcessLines(kind, ProcessLine(kind, ls, Head(lines)), Tail(lines))

\* a streaming call whose fetch has returned the body `lines`
SseCall(kind, lines) ==
    [status |-> "streaming", kind |-> kind, mode |-> "stream", lines |-> lines,
     rest |-> Flatten(lines), buffer |-> <<>>, midLine |-> FALSE,
     loop |-> LoopState(NoAccumulator, <<>>, <<>>, FALSE)]

\* one pass of the `while (true)` loop: reader.read() delivers a chunk of n
\* tokens, the complete lines are processed, the rest stays in the buffer
SseReaderReads ==
    /\ gen.status = "streaming"
    /\ gen.rest # <<>>
    /\ \E n \in 1..Len(gen.rest) :
          LET taken == TakeLines(gen.buffer \o SubSeq(gen.rest, 1, n))
              loop  == ProcessLines(gen.kind, gen.loop, taken.lines)
          IN  gen' = [gen EXCEPT
                        !.rest    = SubSeq(gen.rest, n + 1, Len(gen.rest)),
                        !.buffer  = taken.buffer,
                        !.midLine = @ \/ (IsDataLine(gen.buffer \o SubSeq(gen.rest, 1, n))
                                            /\ taken.lines = <<>>),
                        !.loop    = loop,
                        !.status  = IF loop.returned THEN "done" ELSE @]
    /\ UNCHANGED pc
    /\ GenUnchanged

\* reader.read() reports done: the loop is left, and the Anthropic generator
\* yields its accumulated calls (lines 1607-1614)
SseReaderDone ==
    /\ gen.status = "streaming"
    /\ gen.rest = <<>>
    /\ gen' = [gen EXCEPT
                  !.status = "done",
                  !.loop.yielded =
                     IF gen.kind = "anthropic"
                     THEN @ \o convertAccumulatedToolCallsToGemini(gen.loop.st.acc)
                     ELSE @]
    /\ UNCHANGED pc
    /\ GenUnchanged

SseInit ==
    /\ hookSettings = NoHooks
    /\ request = [op |-> "generate", event |-> "none", tool_name |-> undefined,
                  options |-> NoOptions]
    /\ pc = "sseStart"
    /\ call = NoCall
    /\ child = <<>>
    /\ settled = <<>>
    /\ trace = <<>>
    /\ sbIn = <<>>
    /\ sbOut = [block |-> FALSE, reason |-> undefined]
    /\ mp = NoMatchCall
    /\ idle = NotMounted
    /\ gen \in {SseCall(kind, lines) : kind \in Translators, lines \in WireStreams}
    /\ tr = NoTranslator
    /\ ni = NoSession

SseNext ==
    \/ SseReaderReads
    \/ SseReaderDone

SseSpec == SseInit /\ [][SseNext]_vars

----------------------------------------------------------------------------
(* Requests: the canonical contents and their conversion to the wire

   The text of a text part is a sequence of one-character tokens, so that
   Len is String.prototype.length; texts the translators add are single
   tokens. *)

TextPart(t) == [kind |-> "text", text |-> t, name |-> <<>>, payload |-> <<>>]

\* { functionResponse: { name, response } } with a string response
FunctionResponsePart(name, response) ==
    [kind |-> "functionResponse", text |-> <<>>, name |-> name, payload |-> response]

\* { functionCall: { id, name, args } }
FunctionCallPart(name) ==
    [kind |-> "functionCall", text |-> <<>>, name |-> name, payload |-> <<>>]

\* a part of another type
InlineDataPart == [kind |-> "inlineData", text |-> <<>>, name |-> <<>>, payload |-> <<>>]

Content(role, parts) == [role |-> role, parts |-> parts]

\* the turns a conversation history is made of
Turns ==
    { Content("user", <<>>),
      Content("user", <<TextPart(<<>>)>>),
      Content("user", <<TextPart(<<"h", "i">>)>>),
      Content("user", <<TextPart(<<"h", "i">>), TextPart(<<"a", "b", "c", "d", "e">>)>>),
      Content("user", <<FunctionResponsePart(<<"f">>, <<"ok">>)>>),
      Content("user", <<FunctionResponsePart(<<"f">>, <<"ok">>), TextPart(<<"h", "i">>),
                        FunctionResponsePart(<<"g">>, <<"no">>)>>),
      Content("user", <<InlineDataPart>>),
      Content("user", <<FunctionCallPart(<<"f">>)>>),
      Content("model", <<>>),
      Content("model", <<TextPart(<<"a", "b", "c", "d", "e">>)>>),
      Content("model", <<FunctionCallPart(<<"f">>)>>),
      Content("model", <<FunctionResponsePart(<<"f">>, <<"ok">>)>>) }

\* request.contents: an array of Content objects
ContentLists == UNION {[1..n -> Turns] : n \in 0..MaxTurns}

\* normalizeContents (debug_openai_config.js lines 782-807): a Content object
\* with role and parts is kept as it is ([] is truthy)
normalizeContents(contents) == contents

RECURSIVE Join(_, _)
\* Array.prototype.join
Join(texts, sep) ==
    IF texts = <<>> THEN <<>>
    ELSE IF Len(texts) = 1 THEN texts[1]
    ELSE texts[1] \o <<sep>> \o Join(Tail(texts), sep)

\* extractTextFromContents (lines 1469-1477, 1991-1999;
\* litellmGeminiContentGenerator.ts lines 513-521)
extractTextFromContents(contents) ==
    Join([c \in 1..Len(contents) |->
            Join([q \in 1..Len(contents[c].parts) |->
                    IF contents[c].parts[q].kind = "text"
                    THEN contents[c].parts[q].text ELSE <<>>], " ")], " ")

\* Math.ceil(n / 4)
CeilDiv4(n) == (n + 3) \div 4

\* (mutation: the quotient is rounded down)
countTokens_Floor(contents) ==
    [totalTokens |-> Len(extractTextFromContents(normalizeContents(contents))) \div 4]

\* countTokens (lines 944-953, 1620-1629; litellmGeminiContentGenerator.ts
\* lines 173-182)
countTokens(contents) ==
    [totalTokens |-> CeilDiv4(Len(extractTextFromContents(normalizeContents(contents))))]

\* JSON.stringify(part): one token, never empty
Stringify(part) ==
    CASE part.kind = "text"             -> <<"{\"text\":\"\"}">>
      [] part.kind = "functionResponse" -> <<"{\"functionResponse\":{}}">>
      [] part.kind = "functionCall"     -> <<"{\"functionCall\":{}}">>
      [] OTHER                          -> <<"{\"inlineData\":{}}">>

\* the instruction added when the request asks for JSON output
jsonInstruction == <<"You must respond with valid JSON only.">>

\* a message of the wire request; `from` is the position of the turn it was
\* made from (0 for a message the translator adds)
Message(role, content, from) == [role |-> role, content |-> content, from |-> from]

WireRole(role) == IF role = "model" THEN "assistant" ELSE role

\* lines 988-1001 (litellmGeminiContentGenerator.ts lines 306-321): the
\* content of a turn as one string
FlatContent(content) ==
    Join([q \in 1..Len(content.parts) |->
            IF content.parts[q].kind = "text" THEN content.parts[q].text
            ELSE Stringify(content.parts[q])], "\n")

\* OpenAICompatibleContentGenerator.convertToOpenAIFormat, lines 985-1019:
\* messages with empty content are filtered out, then the system message for
\* JSON output is put in front
OpenAIMessages(contents, json) ==
    (IF json THEN <<Message("system", jsonInstruction, 0)>> ELSE <<>>)
      \o SelectSeq([c \in 1..Len(contents) |->
                      Message(WireRole(contents[c].role), FlatContent(contents[c]), c)],
                   LAMBDA msg : msg.content # <<>>)

\* LiteLLMGeminiContentGenerator.convertMessages, lines 306-321, as called by
\* convertToLiteLLMGeminiFormat: no message is filtered out
LiteLLMMessages(contents) ==
    [c \in 1..Len(contents) |->
       Message(WireRole(contents[c].role), FlatContent(contents[c]), c)]

RECURSIVE ToolResultsText(_)
\* lines 1673-1684: the section of the summary for each tool result ([fence]
\* stands for the three backquotes of a code fence)
ToolResultsText(results) ==
    IF results = <<>> THEN <<>>
    ELSE <<"### ">> \o Head(results).name \o <<"\n", "[fence]\n">> \o Head(results).payload
           \o <<"\n[fence]\n\n">> \o ToolResultsText(Tail(results))

ToolHeader == "## Tool Execution Completed\n\n"

\* lines 1662-1688: the text a turn with tool results is rewritten to
SummaryText(textParts, toolResults) ==
    (IF textParts # <<>>
     THEN Join([q \in 1..Len(textParts) |-> textParts[q].text], "\n") \o <<"\n\n">>
     ELSE <<>>)
      \o <<ToolHeader, "The following tools have been executed successfully:\n\n">>
      \o ToolResultsText(toolResults)
      \o <<"**Task completed successfully.**">>

\* (mutation: the plain text of the turn is put after the tool results)
RewriteTurn_TextLast(content) ==
    LET textParts   == SelectSeq(content.parts,
                                 LAMBDA q : q.kind = "text" /\ q.text # <<>>)
        toolResults == SelectSeq(content.parts, LAMBDA q : q.kind = "functionResponse")
    IN  IF content.role = "user" /\ toolResults # <<>>
        THEN Content(content.role,
                     <<TextPart(SummaryText(<<>>, toolResults)
                                  \o Join([q \in 1..Len(textParts) |-> textParts[q].text],
                                          "\n"))>>)
        ELSE content

\* AnthropicContentGenerator.convertToolResultsToTextForAnthropic (lines
\* 1645-1698) for one turn
RewriteTurn(content) ==
    LET textParts   == SelectSeq(content.parts,
                                 LAMBDA q : q.kind = "text" /\ q.text # <<>>)
        toolResults == SelectSeq(content.parts, LAMBDA q : q.kind = "functionResponse")
    IN  IF content.role = "user" /\ toolResults # <<>>
        THEN Content(content.role, <<TextPart(SummaryText(textParts, toolResults))>>)
        ELSE content

convertToolResultsToTextForAnthropic(contents) ==
    [c \in 1..Len(contents) |-> RewriteTurn(contents[c])]

\* a block of an Anthropic message
Block(type, text) == [type |-> type, text |-> text]

\* lines 1726-1751: one part as a block of the message
AnthropicBlock(part) ==
    IF part.kind = "text" /\ part.text # <<>> THEN Block("text", part.text)
    ELSE IF part.kind = "functionResponse"
    THEN Block("text", <<"Tool result from ">> \o part.name \o <<": ">> \o part.payload)
    ELSE IF part.kind = "functionCall" THEN Block("tool_use", part.name)
    ELSE Block("text", Stringify(part))

\* lines 1760-1769: a turn of role user without text that is not blank and
\* with a block of type tool_result gets a text block in front
EnsureUserText(role, blocks) ==
    LET hasText       == \E b \in 1..Len(blocks) :
                            blocks[b].type = "text" /\ trim(blocks[b].text) # <<>>
        hasToolResult == \E b \in 1..Len(blocks) : blocks[b].type = "tool_result"
    IN  IF role = "user" /\ blocks # <<>> /\ ~hasText /\ hasToolResult
        THEN <<Block("text", <<"Here are the tool results:">>)>> \o blocks
        ELSE blocks

\* AnthropicContentGenerator.convertContentsToAnthropicMessages, lines
\* 1700-1786: the JSON instruction goes in front of the parts of a first turn
\* of role user; a turn without blocks is skipped
AnthropicMessages(contents, json) ==
    LET processed == [c \in 1..Len(contents) |->
                        IF json /\ c = 1 /\ contents[c].role = "user"
                        THEN Content(contents[c].role,
                                     <<TextPart(jsonInstruction)>> \o contents[c].parts)
                        ELSE contents[c]]
    IN  SelectSeq([c \in 1..Len(processed) |->
                     Message(IF processed[c].role = "model" THEN "assistant" ELSE "user",
                             EnsureUserText(processed[c].role,
                                [q \in 1..Len(processed[c].parts) |->
                                   AnthropicBlock(processed[c].parts[q])]),
                             c)],
                  LAMBDA msg : msg.content # <<>>)

\* convertToAnthropicFormat, lines 1635-1643
convertToAnthropicFormat(contents, json) ==
    AnthropicMessages(convertToolResultsToTextForAnthropic(normalizeContents(contents)),
                      json)

\* the messages of the wire request of a translator
WireMessages(kind, contents, json) ==
    CASE kind = "openai"    -> OpenAIMessages(normalizeContents(contents), json)
      [] kind = "litellm"   -> LiteLLMMessages(normalizeContents(contents))
      [] OTHER              -> convertToAnthropicFormat(contents, json)

----------------------------------------------------------------------------
(* Tool declarations: sanitizeParametersForOpenAI *)

\* the value of a schema's `type`: absent, a string, or an object that may
\* itself have a string `type`
NoType == [form |-> "absent", name |-> ""]

TypeString(name) == [form |-> "string", name |-> name]

TypeObject(inner) == [form |-> "object", name |-> inner]

TypeNames == {"string", "STRING", "object", "OBJECT", "array", "integer", "null", "foo"}

\* funcDecl.parameters: not given, a bare string, or a schema object with a
\* type, possibly properties and possibly a description
Schema(type, properties, description) ==
    [given |-> "object", type |-> type, properties |-> properties,
     description |-> description]

NoParameters == [given |-> "absent", type |-> NoType, properties |-> FALSE,
                 description |-> FALSE]

BareString == [given |-> "string", type |-> NoType, properties |-> FALSE,
               description |-> FALSE]

Schemas ==
    {NoParameters, BareString}
      \cup {Schema(t, p, d) :
              t \in {NoType} \cup {TypeString(n) : n \in TypeNames}
                             \cup {TypeObject(n) : n \in {"", "string", "array"}},
              p \in BOOLEAN, d \in BOOLEAN}

\* String.prototype.toLowerCase on type names
LowerType(name) ==
    CASE name = "STRING" -> "string"
      [] name = "OBJECT" -> "object"
      [] OTHER           -> name

\* lines 1184-1186: {type: {type: 'string'}} becomes {type: 'string'}
FixNestedType(type) ==
    IF type.form = "object" /\ type.name # "" THEN TypeString(type.name) ELSE type

\* lines 1189-1195 for the key `type`: a string value that names a type is
\* replaced by the object {type: <lower-case name>}
StringToSchema(type) ==
    IF type.form = "string"
         /\ LowerType(type.name) \in {"string", "number", "integer", "boolean",
                                      "array", "object"}
    THEN TypeObject(LowerType(type.name))
    ELSE type

\* fixCommonSchemaIssues, lines 1261-1284: the type becomes a string again,
\* lower case, and `object` when it is not a valid type
FixCommonType(type) ==
    LET t1 == IF type.form = "object"
              THEN (IF type.name # "" THEN TypeString(type.name) ELSE TypeString("object"))
              ELSE type
    IN  IF t1.form = "string"
        THEN (IF LowerType(t1.name) \in {"string", "number", "integer", "boolean",
                                         "array", "object", "null"}
              THEN TypeString(LowerType(t1.name))
              ELSE TypeString("object"))
        ELSE t1

\* sanitizeSchemaRecursively (lines 1178-1256) on the root schema: what it
\* does to `type`
sanitizeSchemaRecursively(schema) ==
    [schema EXCEPT !.type = FixCommonType(StringToSchema(FixNestedType(@)))]

\* a sanitized root schema; `properties` is "none", "empty" ({}), "kept"
\* (the declaration's own) or "value" (the one property `value`)
Sanitized(type, properties, valueType, valueDescription, required) ==
    [type |-> type, properties |-> properties, valueType |-> valueType,
     valueDescription |-> valueDescription, required |-> required]

EmptyObjectSchema == Sanitized(TypeString("object"), "empty", NoType, FALSE, <<>>)

\* (mutation: a root that is not an object is passed on as it is)
sanitizeParametersForOpenAI_NoWrap(parameters) ==
    IF parameters.given # "object" THEN EmptyObjectSchema
    ELSE LET sanitized == sanitizeSchemaRecursively(parameters)
         IN  Sanitized(sanitized.type,
                       IF sanitized.properties THEN "kept" ELSE "none",
                       NoType, FALSE, <<>>)

\* sanitizeParametersForOpenAI, lines 1124-1173, on funcDecl.parameters ||
\* {type: 'object', properties: {}} (line 1046)
sanitizeParametersForOpenAI(parameters) ==
    IF parameters.given # "object" THEN EmptyObjectSchema
    ELSE LET sanitized == sanitizeSchemaRecursively(parameters)
         IN  IF sanitized.type.form = "absent"
             THEN Sanitized(TypeString("object"),
                            IF sanitized.properties THEN "kept" ELSE "empty",
                            NoType, FALSE, <<>>)
             ELSE IF sanitized.type # TypeString("object")
             THEN Sanitized(TypeString("object"), "value", sanitized.type,
                            sanitized.description, <<"value">>)
             ELSE Sanitized(TypeString("object"),
                            IF sanitized.properties THEN "kept" ELSE "empty",
                            NoType, FALSE, <<>>)

----------------------------------------------------------------------------
(* The temperature of a request.  Temperatures are counted in tenths. *)

\* lines 1102-1108
thinkingModels ==
    { <<"o3">>, <<"o3", "-mini">>, <<"o3", "-mini", "-2025-06-12">>,
      <<"o1", "-preview">>, <<"o1", "-mini">> }

\* request.model
ModelNames ==
    { <<"gpt-4">>, <<"o3">>, <<"azure/", "O3", "-mini">>, <<"o1", "-preview">>,
      <<"o1">> }

\* request.config?.temperature
Temperatures == {undefinedNum, Num(0), Num(2), Num(10), Num(15)}

\* OpenAICompatibleContentGenerator.getTemperatureForModel, lines 1100-1119
getTemperatureForModel(model, requestedTemperature) ==
    IF \E thinkingModel \in thinkingModels :
          IsInfix(toLowerCase(thinkingModel), toLowerCase(model))
    THEN 10
    ELSE IF TruthyNum(requestedTemperature) THEN requestedTemperature.num ELSE 7

\* the temperature of the wire request: convertToOpenAIFormat lines 1027-1033,
\* convertContentsToAnthropicMessages line 1781, convertToLiteLLMGeminiFormat
\* line 215 (no model of the GPT-5 family is used here)
WireTemperature(kind, model, requestedTemperature) ==
    IF kind = "openai" THEN getTemperatureForModel(model, requestedTemperature)
    ELSE IF TruthyNum(requestedTemperature) THEN requestedTemperature.num ELSE 7

----------------------------------------------------------------------------
(* A translator object and the requests made of it *)

\* what the last call was given and what it produced
Last(op, contents, json, tools) ==
    [op |-> op, contents |-> contents, json |-> json, tools |-> tools,
     totalTokens |-> 0, processed |-> <<>>, messages |-> <<>>, sanitized |-> <<>>,
     model |-> <<>>, requested |-> undefinedNum, temperature |-> 0,
     error |-> ""]

NoLast == Last("none", <<>>, FALSE, <<>>)

\* a translator after construction: no call made, no network request issued
NewTranslator(kind) == [kind |-> kind, calls |-> 0, fetches |-> 0, last |-> NoLast]

\* the requests of generateContent: a conversation, with or without the
\* request for JSON output, or one turn with one tool declaration, or one
\* turn for some model at some temperature
GenerateRequests(kind) ==
    {[contents |-> c, json |-> j, tools |-> <<>>, model |-> <<"gpt-4">>,
      temperature |-> undefinedNum] : c \in ContentLists, j \in BOOLEAN}
      \cup (IF kind = "openai"
            THEN {[contents |-> <<Content("user", <<TextPart(<<"h", "i">>)>>)>>,
                   json |-> FALSE, tools |-> <<p>>, model |-> <<"gpt-4">>,
                   temperature |-> undefinedNum] : p \in Schemas}
                   \cup
                 {[contents |-> <<Content("user", <<TextPart(<<"h", "i">>)>>)>>,
                   json |-> FALSE, tools |-> <<>>, model |-> m,
                   temperature |-> t] : m \in ModelNames, t \in Temperatures}
            ELSE {})

ReqUnchanged ==
    UNCHANGED <<hookSettings, request, pc, call, child, settled, trace, sbIn, sbOut,
                mp, idle, gen, ni>>

\* countTokens: no await on the network, nothing stored
CallCountTokens ==
    /\ tr.last.op = "none"
    /\ tr.calls < MaxCalls
    /\ \E contents \in ContentLists :
          tr' = [tr EXCEPT
                   !.calls = @ + 1,
                   !.last = [Last("countTokens", contents, FALSE, <<>>) EXCEPT
                               !.totalTokens = countTokens(contents).totalTokens]]
    /\ ReqUnchanged

\* (mutation: every translator posts the embedding request)
embedContent_Posts(kind, ok) ==
    [fetched |-> TRUE, error |-> IF ok THEN "" ELSE "HTTP"]

\* embedContent: AnthropicContentGenerator (lines 1631-1633) and
\* LiteLLMGeminiContentGenerator (lines 184-186) throw at once;
\* OpenAICompatibleContentGenerator (lines 955-983) posts to /embeddings
embedContent(kind, ok) ==
    CASE kind = "anthropic" ->
            [fetched |-> FALSE, error |-> "Anthropic does not support embeddings"]
      [] kind = "litellm" ->
            [fetched |-> FALSE, error |-> "Embeddings not supported via LiteLLM Gemini"]
      [] OTHER -> [fetched |-> TRUE, error |-> IF ok THEN "" ELSE "HTTP"]

CallEmbedContent ==
    /\ tr.last.op = "none"
    /\ tr.calls < MaxCalls
    /\ \E contents \in {<<>>, <<Content("user", <<TextPart(<<"h", "i">>)>>)>>},
          ok \in BOOLEAN :
          tr' = [tr EXCEPT
                   !.calls = @ + 1,
                   !.fetches = IF embedContent(tr.kind, ok).fetched THEN @ + 1 ELSE @,
                   !.last = [Last("embedContent", contents, FALSE, <<>>) EXCEPT
                               !.error = embedContent(tr.kind, ok).error]]
    /\ ReqUnchanged

\* generateContent up to its fetch: the request is converted to the wire
\* format and posted
CallGenerateContent ==
    /\ tr.last.op = "none"
    /\ tr.calls < MaxCalls
    /\ \E req \in GenerateRequests(tr.kind) :
          tr' = [tr EXCEPT
                   !.calls = @ + 1,
                   !.fetches = @ + 1,
                   !.last = [Last("generateContent", req.contents, req.json, req.tools)
                             EXCEPT
                               !.processed =
                                  IF tr.kind = "anthropic"
                                  THEN convertToolResultsToTextForAnthropic(
                                          normalizeContents(req.contents))
                                  ELSE normalizeContents(req.contents),
                               !.messages = WireMessages(tr.kind, req.contents, req.json),
                               !.model = req.model,
                               !.requested = req.temperature,
                               !.temperature = WireTemperature(tr.kind, req.model,
                                                               req.temperature),
                               !.sanitized =
                                  [k \in 1..Len(req.tools) |->
                                     sanitizeParametersForOpenAI(req.tools[k])]]]
    /\ ReqUnchanged

\* the call's promise settles and the caller takes the result
CallReturns ==
    /\ tr.last.op # "none"
    /\ tr' = [tr EXCEPT !.last = NoLast]
    /\ ReqUnchanged

ReqInit ==
    /\ hookSettings = NoHooks
    /\ request = [op |-> "translate", event |-> "none", tool_name |-> undefined,
                  options |-> NoOptions]
    /\ pc = "reqStart"
    /\ call = NoCall
    /\ child = <<>>
    /\ settled = <<>>
    /\ trace = <<>>
    /\ sbIn = <<>>
    /\ sbOut = [block |-> FALSE, reason |-> undefined]
    /\ mp = NoMatchCall
    /\ idle = NotMounted
    /\ gen = NoStream
    /\ tr \in {NewTranslator(k) : k \in Translators}
    /\ ni = NoSession

ReqNext ==
    \/ CallCountTokens
    \/ CallEmbedContent
    \/ CallGenerateContent
    \/ CallReturns

ReqSpec == ReqInit /\ [][ReqNext]_vars

----------------------------------------------------------------------------
(* runNonInteractive (the non-interactive CLI loop) *)

\* the tools the model asks for: one of the registry, one that is not
SessionTools == {WRITE_FILE, <<"grep">>}

\* a run before its first statement: the input, whether hooks are configured
\* (config.getHooks()), and config.getMaxSessionTurns()
NewSession(input, hooks, maxSessionTurns) ==
    [pc |-> "start", input |-> input, hooks |-> hooks,
     maxSessionTurns |-> maxSessionTurns, turnCount |-> 0,
     functionCalls |-> <<>>, next |-> 1, log |-> <<>>]

\* an entry of the log of a run: a completed turn, or an executeHooks('Stop')
\* call with its completed_calls
TurnCompleted(n) == [ev |-> "turn", calls |-> n]

StopHooks(n) == [ev |-> "Stop", calls |-> n]

NiUnchanged ==
    UNCHANGED <<hookSettings, request, pc, call, child, settled, trace, sbIn, sbOut,
                mp, idle, gen, tr>>

\* lines 297-322: a slash command is handled and the function returns;
\* otherwise the loop is entered
NiStart ==
    /\ ni.pc = "start"
    /\ ni' = [ni EXCEPT !.pc = IF ni.input = "slash" THEN "returned" ELSE "loop"]
    /\ NiUnchanged

\* lines 327-344: the turn counter, the limit of turns, and the message sent
NiBeginTurn ==
    /\ ni.pc = "loop"
    /\ ni' = IF ni.maxSessionTurns >= 0 /\ ni.turnCount + 1 > ni.maxSessionTurns
             THEN [ni EXCEPT !.turnCount = @ + 1, !.pc = "returned"]
             ELSE [ni EXCEPT !.turnCount = @ + 1, !.pc = "streaming",
                             !.functionCalls = <<>>, !.next = 1]
    /\ NiUnchanged

\* lines 346-363: a ToolCallRequest event of the response stream (Content
\* events are written to stdout and leave the state as it is)
NiToolCallRequest ==
    /\ ni.pc = "streaming"
    /\ ni.turnCount <= MaxSessionTurns
    /\ Len(ni.functionCalls) < MaxFunctionCalls
    /\ \E name \in SessionTools :
          ni' = [ni EXCEPT !.functionCalls = Append(@, name)]
    /\ NiUnchanged

\* lines 434-441: the stream throws; the error is printed and the process
\* exits with code 1
NiStreamThrows ==
    /\ ni.pc = "streaming"
    /\ ni' = [ni EXCEPT !.pc = "exited"]
    /\ NiUnchanged

\* lines 365 and 429-432: the stream is at its end; without function calls
\* a newline is written and the function returns
NiStreamDone ==
    /\ ni.pc = "streaming"
    /\ ni' = IF ni.functionCalls # <<>>
             THEN [ni EXCEPT !.pc = "tools"]
             ELSE [ni EXCEPT !.pc = "returned", !.log = Append(@, TurnCompleted(0))]
    /\ NiUnchanged

\* lines 368-408: executeToolCall for the next function call; an error other
\* than `not found in registry` ends the process
NiExecuteTool ==
    /\ ni.pc = "tools"
    /\ ni.next <= Len(ni.functionCalls)
    /\ \E ok \in BOOLEAN :
          ni' = IF ni.functionCalls[ni.next] \in Registry /\ ~ok
                THEN [ni EXCEPT !.pc = "exited"]
                ELSE [ni EXCEPT !.next = @ + 1]
    /\ NiUnchanged

\* lines 410-428: the tool responses become the next message, then the Stop
\* hooks are executed when hooks are configured, and the loop goes on
NiToolsDone ==
    /\ ni.pc = "tools"
    /\ ni.next > Len(ni.functionCalls)
    /\ ni' = [ni EXCEPT
                !.pc = "loop",
                !.log = Append(@, TurnCompleted(Len(ni.functionCalls)))
                          \o (IF ni.hooks THEN <<StopHooks(Len(ni.functionCalls))>>
                              ELSE <<>>)]
    /\ NiUnchanged

NiInit ==
    /\ hookSettings = NoHooks
    /\ request = [op |-> "runNonInteractive", event |-> "none", tool_name |-> undefined,
                  options |-> NoOptions]
    /\ pc = "niStart"
    /\ call = NoCall
    /\ child = <<>>
    /\ settled = <<>>
    /\ trace = <<>>
    /\ sbIn = <<>>
    /\ sbOut = [block |-> FALSE, reason |-> undefined]
    /\ mp = NoMatchCall
    /\ idle = NotMounted
    /\ gen = NoStream
    /\ tr = NoTranslator
    /\ ni \in {NewSession(input, hooks, maxSessionTurns) :
                  input \in {"prompt", "slash"}, hooks \in BOOLEAN,
                  maxSessionTurns \in {-1, 1, MaxSessionTurns + 1}}

NiNext ==
    \/ NiStart
    \/ NiBeginTurn
    \/ NiToolCallRequest
    \/ NiStreamThrows
    \/ NiStreamDone
    \/ NiExecuteTool
    \/ NiToolsDone

NiSpec == NiInit /\ [][NiNext]_vars




----------------------------------------------------------------------------
(* The hook system *)

Init ==
    /\ hookSettings \in SettingsChoices
    /\ request \in Requests
    /\ pc = "start"
    /\ call = NoCall
    /\ child = <<>>
    /\ settled = <<>>
    /\ trace = <<>>
    /\ sbIn = <<>>
    /\ sbOut = Proceed
    /\ mp = NoMatchCall
    /\ idle = NotMounted
    /\ gen = NoStream
    /\ tr = NoTranslator
    /\ ni = NoSession

HookIndex == 1..(MaxHooks + 2)

Next ==
    \/ ExecuteToolCallStart
    \/ ToolExecuteStart
    \/ ToolExecuteReturns
    \/ ToolExecuteThrows
    \/ ConvertReturns
    \/ ConvertThrows
    \/ ReturnError
    \/ DirectCall
    \/ DirectCallDone
    \/ HooksReturn
    \/ \E i \in HookIndex : TimerFires(i)
    \/ \E i \in HookIndex : KillTimerFires(i)
    \/ \E i \in HookIndex : ProcessEnds(i)
    \/ \E i \in HookIndex : EmitError(i)
    \/ \E i \in HookIndex : EmitClose(i)

Spec == Init /\ [][Next]_vars

\* The same system under the scheduling Node guarantees: an armed timer
\* fires, an emitted event is delivered, a continuation whose promise has
\* settled is run, and a process that may end does end.
FairSpec ==
    /\ Spec
    /\ WF_vars(HooksReturn)
    /\ \A i \in HookIndex :
          /\ WF_vars(TimerFires(i))
          /\ WF_vars(KillTimerFires(i))
          /\ WF_vars(ProcessEnds(i))
          /\ WF_vars(EmitError(i))
          /\ WF_vars(EmitClose(i))

----------------------------------------------------------------------------
(* HookExecutor.shouldBlock called on arbitrary result lists *)

\* result shapes of the HookExecutionResult interface (lines 40-45)
ResultShapes ==
    { [success |-> TRUE,  output |-> Str(<<"done">>), error |-> undefined, decision |-> <<>>],
      [success |-> TRUE,  output |-> Str(<<>>), error |-> undefined,
       decision |-> <<[decision |-> Str(<<"approve">>), reason |-> undefined]>>],
      [success |-> TRUE,  output |-> Str(<<>>), error |-> undefined,
       decision |-> <<[decision |-> Str(<<"block">>), reason |-> Str(<<"policy">>)]>>],
      [success |-> FALSE, output |-> undefined, error |-> Str(<<"denied">>),
       decision |-> <<[decision |-> Str(<<"block">>), reason |-> Str(<<>>)]>>],
      [success |-> FALSE, output |-> undefined, error |-> Str(<<"boom">>), decision |-> <<>>],
      [success |-> FALSE, output |-> undefined, error |-> Str(<<>>), decision |-> <<>>],
      [success |-> FALSE, output |-> undefined, error |-> undefined, decision |-> <<>>],
      [success |-> TRUE,  output |-> undefined, error |-> Str(<<"ignored">>),
       decision |-> <<[decision |-> undefined, reason |-> Str(<<"note">>)]>>] }

ResultLists == UNION {[1..n -> ResultShapes] : n \in 0..MaxResults}

SbInit ==
    /\ hookSettings = NoHooks
    /\ request = [op |-> "shouldBlock", event |-> "none", tool_name |-> undefined,
                  options |-> NoOptions]
    /\ pc = "sbStart"
    /\ call = NoCall
    /\ child = <<>>
    /\ settled = <<>>
    /\ trace = <<>>
    /\ sbIn \in ResultLists
    /\ sbOut = Proceed
    /\ mp = NoMatchCall
    /\ idle = NotMounted
    /\ gen = NoStream
    /\ tr = NoTranslator
    /\ ni = NoSession

\* lines 290-300
CallShouldBlock ==
    /\ pc = "sbStart"
    /\ sbOut' = shouldBlock(sbIn)
    /\ pc' = "sbDone"
    /\ UNCHANGED <<hookSettings, request, call, child, settled, trace, sbIn, mp, idle, gen, tr, ni>>

SbNext == CallShouldBlock

ShouldBlockSpec == SbInit /\ [][SbNext]_vars

----------------------------------------------------------------------------
(* HookExecutor.matchesPattern called on arbitrary patterns and inputs *)

\* matcher patterns: absent, empty, alternations, upper case, a substring,
\* and one that is no regular expression
Patterns ==
    { undefined,
      Str(<<>>),
      Str(<<"write", "_", "file", "|", "edit", "_", "file">>),
      Str(<<"write", "_", "file", "|", "edit">>),
      Str(<<"WRITE", "_", "FILE">>),
      Str(<<"file">>),
      Str(<<"read">>),
      Str(<<"(", "edit">>) }

\* the tool_name field of a hook input: absent, empty, or a name
ToolNameFields ==
    { undefined,
      Str(<<>>),
      Str(WRITE_FILE),
      Str(<<"edit", "_", "file">>),
      Str(<<"read", "_", "file">>),
      Str(<<"WRITE", "_", "FILE">>),
      Str(<<"grep">>),
      Str(<<"(", "edit">>),
      Str(<<"(", "EDIT">>) }

MpInit ==
    /\ hookSettings = NoHooks
    /\ request = [op |-> "matchesPattern", event |-> "none", tool_name |-> undefined,
                  options |-> NoOptions]
    /\ pc = "mpStart"
    /\ call = NoCall
    /\ child = <<>>
    /\ settled = <<>>
    /\ trace = <<>>
    /\ sbIn = <<>>
    /\ sbOut = Proceed
    /\ mp \in {[NoMatchCall EXCEPT !.pattern = p, !.input = [tool_name |-> t]] :
                  p \in Patterns, t \in ToolNameFields}
    /\ idle = NotMounted
    /\ gen = NoStream
    /\ tr = NoTranslator
    /\ ni = NoSession

\* lines 129-147
CallMatchesPattern ==
    /\ pc = "mpStart"
    /\ mp' = [mp EXCEPT !.done = TRUE, !.out = matchesPattern(mp.pattern, mp.input)]
    /\ pc' = "mpDone"
    /\ UNCHANGED <<hookSettings, request, call, child, settled, trace, sbIn, sbOut,
                   idle, gen, tr, ni>>

MpNext == CallMatchesPattern

MatchSpec == MpInit /\ [][MpNext]_vars

----------------------------------------------------------------------------
(* Claims *)

Hooks == 1..Len(child)

\* the hook's process failed in one of the ways the executor knows
HookFailed(c) == c.spawn # "ok" \/ c.timedOut \/ c.code # "0"

MentionsTimeout(v) ==
    v.defined /\ \E k \in 1..Len(v.text) : v.text[k] = "Hook command timed out after "

\* C1: executeHooks never rejects; when it returns, the list holds exactly
\* one entry per matching hook, and every hook that failed (spawn error,
\* thrown exception, timeout, non-zero exit) is an entry with success = FALSE.
C1_NeverThrows ==
    /\ call.status # "rejected"
    /\ call.status = "returned" =>
          /\ Len(call.results) = Len(call.matching)
          /\ \A i \in 1..Len(call.results) :
                HookFailed(child[i]) => ~call.results[i].success

C1_Witness ==
    /\ call.status = "returned"
    /\ Len(call.results) = 2
    /\ \E i, j \in Hooks :
          /\ child[i].spawn = "threw"
          /\ child[j].timedOut /\ child[j].proc = "closed"

\* no matcher registered for the event matches the input
NoMatcherMatches ==
    \A k \in 1..Len(hookSettings[call.event]) :
        ~matchesPattern(hookSettings[call.event][k].matcher, call.input)

\* C2: when no matchers are registered for the event, or none of them
\* matches the input, executeHooks has returned the empty list and no process
\* was spawned.
C2_NoHookNoSpawn ==
    (call.status # "none" /\ NoMatcherMatches) =>
        /\ call.status = "returned"
        /\ call.results = <<>>
        /\ child = <<>>

C2_Witness ==
    /\ call.status = "returned"
    /\ hookSettings[call.event] # <<>>
    /\ Truthy(call.input.tool_name)
    /\ NoMatcherMatches
    /\ child = <<>>

\* C3: tool.execute is not run when the PreToolUse results block
\* (shouldBlock is true for them).
C3_BlockingPreHookStopsTool ==
    (pc = "executing" /\ call.event = "PreToolUse" /\ call.status = "returned")
        => ~shouldBlock(call.results).block

\* C4: a hook that closed with exit code 2 and did not time out has the
\* result success = FALSE with decision 'block', whose reason is the standard
\* error text, or a non-empty generic message when standard error was empty.
C4_ExitTwoBlocksWithReason ==
    \A i \in Hooks :
        (child[i].proc = "closed" /\ child[i].spawn = "ok"
            /\ child[i].code = "2" /\ ~child[i].timedOut) =>
            /\ child[i].promise = "fulfilled"
            /\ ~child[i].value.success
            /\ Len(child[i].value.decision) = 1
            /\ child[i].value.decision[1].decision = Str(<<"block">>)
            /\ IF Truthy(child[i].stderr)
               THEN child[i].value.decision[1].reason = child[i].stderr
               ELSE Truthy(child[i].value.decision[1].reason)

\* C5: every executeHooks call that waits for its hooks eventually returns,
\* and a hook whose timer fired has the timed-out failure as its result.
C5_TimedOutHookReturns ==
    /\ (call.status = "awaiting") ~> (call.status = "returned")
    /\ [](\A i \in Hooks :
            (child[i].timedOut /\ child[i].promise # "pending") =>
                ~child[i].value.success /\ MentionsTimeout(child[i].value.error))

DiscoveryOrder(matchers, input) ==
    LET hit == SelectSeq(matchers, LAMBDA m : matchesPattern(m.matcher, input))
    IN  Concat([k \in 1..Len(hit) |-> hit[k].hooks])

\* C7: the hooks are run in match-discovery order and result i is the
\* settlement of the i-th matched hook, in whatever order the hooks settled.
C7_ResultsInDiscoveryOrder ==
    call.status \in {"awaiting", "returned"} =>
        /\ call.matching = DiscoveryOrder(hookSettings[call.event], call.input)
        /\ Len(child) = Len(call.matching)
        /\ \A i \in Hooks : child[i].hook = call.matching[i]
        /\ call.status = "returned" =>
              /\ Len(call.results) = Len(child)
              /\ \A i \in Hooks :
                    IF child[i].promise = "fulfilled"
                    THEN call.results[i] = child[i].value
                    ELSE ~call.results[i].success

C7_Witness ==
    /\ call.status = "returned"
    /\ Len(settled) >= 2
    /\ settled[1] > settled[2]
    /\ call.results[1] # call.results[2]
    /\ call.results[1].success
    /\ child[1].hook # child[2].hook

\* C8: when the executor starts to wait, every matched hook has been
\* launched; and a step in which one hook's timer fires or a signal is sent
\* to it leaves every sibling as it was.
C8_LaunchedTogether ==
    [][ /\ call'.status = "awaiting" =>
              \A i \in 1..Len(child') : child'[i].spawn # "pending"
        /\ \A i \in Hooks :
              (/\ Len(child') = Len(child)
               /\ \/ child'[i].timedOut # child[i].timedOut
                  \/ child'[i].signals # child[i].signals
                  \/ child'[i].killTimer # child[i].killTimer)
              => \A j \in Hooks \ {i} : child'[j] = child[j] ]_vars

C8_Witness ==
    /\ call.status = "awaiting"
    /\ \E i, j \in Hooks :
          /\ i < j
          /\ child[j].timedOut /\ "SIGTERM" \in child[j].signals
          /\ child[j].promise = "fulfilled"
          /\ child[i].proc = "running" /\ ~child[i].timedOut

\* a result that blocks: a 'block' decision, or a failure with an error text
Blocks(r) ==
    \/ r.decision # <<>> /\ r.decision[1].decision = Str(<<"block">>)
    \/ ~r.success /\ r.error.defined /\ r.error.text # <<>>

\* C9: shouldBlock returns block = TRUE exactly when some result blocks, with
\* the reason of the first such result (the decision's reason for a block
\* decision, else the error text); otherwise block = FALSE.
C9_ShouldBlockFirstBlocker ==
    pc = "sbDone" =>
        /\ sbOut.block <=> \E i \in 1..Len(sbIn) : Blocks(sbIn[i])
        /\ sbOut.block =>
              \E i \in 1..Len(sbIn) :
                  /\ Blocks(sbIn[i])
                  /\ \A j \in 1..(i - 1) : ~Blocks(sbIn[j])
                  /\ sbOut.reason =
                        IF sbIn[i].decision # <<>>
                              /\ sbIn[i].decision[1].decision = Str(<<"block">>)
                        THEN sbIn[i].decision[1].reason
                        ELSE sbIn[i].error
        /\ ~sbOut.block => sbOut = Proceed

C9_Witness ==
    /\ pc = "sbDone"
    /\ Len(sbIn) = 2
    /\ sbIn[1].decision = <<>> /\ Blocks(sbIn[1])
    /\ sbIn[2].decision # <<>> /\ Blocks(sbIn[2])
    /\ sbOut = [block |-> TRUE, reason |-> sbIn[1].error]

\* stdout, trimmed, is one JSON text
StdoutIsJson(c) ==
    Len(trim(c.stdout.text)) = 1 /\ trim(c.stdout.text)[1] \in JsonTexts

StdoutJson(c) == JsonValue(trim(c.stdout.text)[1])

\* C10 as stated: a hook that closed with exit code 0 is a success; JSON
\* stdout with a `decision` or `reason` field is attached as the decision,
\* any other stdout gives no decision.
C10_ExitZeroAsStated ==
    \A i \in Hooks :
        (child[i].proc = "closed" /\ child[i].spawn = "ok" /\ child[i].code = "0") =>
            /\ child[i].promise = "fulfilled"
            /\ child[i].value.success
            /\ child[i].value.error = undefined
            /\ IF /\ StdoutIsJson(child[i])
                  /\ StdoutJson(child[i]).kind = "object"
                  /\ StdoutJson(child[i]).hasDecision \/ StdoutJson(child[i]).hasReason
               THEN child[i].value.decision =
                       <<[decision |-> StdoutJson(child[i]).decision,
                          reason   |-> StdoutJson(child[i]).reason]>>
               ELSE child[i].value.decision = <<>>

\* C10 (amended): a hook that closed with exit code 0 and did not time out is
\* a success with stdout as its output; JSON stdout whose `decision` or
\* `reason` is non-empty is attached as the decision, any other stdout gives
\* no decision and no error.
C10_ExitZeroSuccess ==
    \A i \in Hooks :
        (child[i].proc = "closed" /\ child[i].spawn = "ok"
            /\ child[i].code = "0" /\ ~child[i].timedOut) =>
            /\ child[i].promise = "fulfilled"
            /\ child[i].value.success
            /\ child[i].value.error = undefined
            /\ child[i].value.output = child[i].stdout
            /\ IF /\ StdoutIsJson(child[i])
                  /\ StdoutJson(child[i]).kind = "object"
                  /\ \/ StdoutJson(child[i]).decision \notin {undefined, Str(<<>>)}
                     \/ StdoutJson(child[i]).reason \notin {undefined, Str(<<>>)}
               THEN child[i].value.decision =
                       <<[decision |-> StdoutJson(child[i]).decision,
                          reason   |-> StdoutJson(child[i]).reason]>>
               ELSE child[i].value.decision = <<>>

C10_Witness ==
    \E i, j \in Hooks :
        /\ child[i].proc = "closed" /\ child[i].code = "0" /\ ~child[i].timedOut
        /\ child[i].stdout = Str(<<"{\"decision\":\"approve\"}", "\n">>)
        /\ child[i].value.decision # <<>>
        /\ child[j].proc = "closed" /\ child[j].code = "0" /\ ~child[j].timedOut
        /\ child[j].stdout = Str(<<"{\"decision\":\"\",\"reason\":\"\"}">>)
        /\ child[j].value.decision = <<>>

----------------------------------------------------------------------------
\* C11: a spawned hook that closes, not timed out, with an exit code other
\* than 0 and 2 yields success = false, no decision, and as error its
\* standard error when that is non-empty, else a generic message that ends
\* with the exit code.
C11_OtherExitPlainFailure ==
    \A i \in Hooks :
        ( /\ child[i].proc = "closed"
          /\ child[i].spawn = "ok"
          /\ ~child[i].timedOut
          /\ child[i].code \notin {"0", "2"} )
        => /\ child[i].promise = "fulfilled"
           /\ ~child[i].value.success
           /\ child[i].value.decision = <<>>
           /\ IF child[i].stderr.text # <<>>
              THEN child[i].value.error = child[i].stderr
              ELSE /\ child[i].value.error.defined
                   /\ Len(child[i].value.error.text) = 2
                   /\ child[i].value.error.text[2] = child[i].code
           /\ call.status = "returned" => call.results[i] = child[i].value

C11_Witness ==
    /\ call.status = "returned"
    /\ \E i \in Hooks :
          /\ child[i].proc = "closed"
          /\ child[i].spawn = "ok"
          /\ ~child[i].timedOut
          /\ child[i].code = "1"
          /\ child[i].stderr.text = <<>>
          /\ call.results[i].error = Str(<<"Hook failed with exit code ", "1">>)

----------------------------------------------------------------------------
\* new RegExp(pattern, 'i').test(name) is true: the pattern compiles and
\* one of its alternatives occurs in the name, letter case ignored
RegexTestsTrue(pattern, name) ==
    RegExpCompiles(pattern.text) /\ RegExpTest(pattern.text, name.text)

\* the examples of the claim
MatchExamples ==
    LET alt == Str(<<"write", "_", "file", "|", "edit", "_", "file">>)
        t   == mp.input.tool_name
    IN  /\ (mp.pattern = alt /\ t = Str(WRITE_FILE)) => mp.out
        /\ (mp.pattern = alt /\ t = Str(<<"edit", "_", "file">>)) => mp.out
        /\ (mp.pattern = alt /\ t = Str(<<"read", "_", "file">>)) => ~mp.out
        /\ (mp.pattern = Str(<<"WRITE", "_", "FILE">>) /\ t = Str(WRITE_FILE)) => mp.out

\* C12 as stated: for an input with a tool name, a non-empty pattern matches
\* exactly when it tests true as a case-insensitive regular expression; an
\* absent or empty pattern matches every input.
C12_MatchIffRegexTests ==
    mp.done =>
        /\ ~Truthy(mp.pattern) => mp.out
        /\ (Truthy(mp.pattern) /\ Truthy(mp.input.tool_name)) =>
              /\ mp.out <=> RegexTestsTrue(mp.pattern, mp.input.tool_name)
              /\ MatchExamples

\* C12 (amended): for an input with a tool name, a non-empty pattern that
\* compiles as a regular expression matches exactly when it tests true,
\* case-insensitively, against the tool name; a pattern that does not compile
\* matches exactly when it equals the tool name; an absent or empty pattern
\* matches every input.
C12_MatchRegexOrExact ==
    mp.done =>
        /\ ~Truthy(mp.pattern) => mp.out
        /\ (Truthy(mp.pattern) /\ Truthy(mp.input.tool_name)) =>
              /\ IF RegExpCompiles(mp.pattern.text)
                 THEN mp.out <=> RegexTestsTrue(mp.pattern, mp.input.tool_name)
                 ELSE mp.out <=> (mp.input.tool_name = mp.pattern)
              /\ MatchExamples

C12_Witness ==
    /\ mp.done
    /\ mp.pattern = Str(<<"(", "edit">>)
    /\ mp.input.tool_name = Str(<<"(", "edit">>)
    /\ mp.out

----------------------------------------------------------------------------
\* C13: when the input of executeHooks carries no tool name, every matcher
\* of the event matches whatever its pattern: the hooks of all matchers, in
\* order, are the ones launched.
C13_NonToolEventsUnfiltered ==
    (call.event # "none" /\ ~call.input.tool_name.defined) =>
        /\ call.matching =
              Concat([k \in 1..Len(hookSettings[call.event]) |->
                        hookSettings[call.event][k].hooks])
        /\ Len(child) = Len(call.matching)
        /\ \A i \in Hooks : child[i].hook = call.matching[i] /\ child[i].spawn # "pending"

C13_Witness ==
    /\ call.event = "Notification"
    /\ ~call.input.tool_name.defined
    /\ \E k \in 1..Len(hookSettings["Notification"]) :
          Truthy(hookSettings["Notification"][k].matcher)
    /\ Len(child) = Len(FirstHooks(MaxHooks))
    /\ call.status = "returned"

----------------------------------------------------------------------------
\* C14: a Stop-hook execution is pending only while the component is mounted
\* and the streaming state, having changed from Responding to Idle, has been
\* Idle ever since; and executeStopHook is entered only when that state has
\* lasted the full second.
C14_StopAfterStableIdle ==
    /\ idle.timer = "armed" =>
          /\ idle.mounted
          /\ idle.streamingState = "Idle"
          /\ idle.from = "Responding"
          /\ idle.elapsed = idle.stableFor
    /\ (idle.inFlight > 0 \/ idle.executions > 0) =>
          /\ idle.enteredAt.streamingState = "Idle"
          /\ idle.enteredAt.from = "Responding"
          /\ idle.enteredAt.stableFor >= IDLE_STABLE_MS

\* of two responses, one ended in a transient Idle and ran no Stop hook
C14_Witness ==
    /\ idle.responses = 2
    /\ idle.executions = 1
    /\ idle.entered = 1
    /\ idle.inFlight = 0
    /\ idle.timer = "none"

----------------------------------------------------------------------------
\* C15: executeStopHook is entered at most once after each change from
\* Responding to Idle, and the executeHooks('Stop') calls made or about to be
\* made never outnumber those changes.
C15_StopAtMostOncePerResponse ==
    /\ idle.entered <= 1
    /\ idle.executions + idle.inFlight <= idle.responses

C15_Witness ==
    /\ idle.executions = 2
    /\ idle.responses = 2
    /\ idle.config # "null"

----------------------------------------------------------------------------
(* Claims about the content generators *)

\* the tool-call deltas of the received lines, in arrival order
ToolDeltas(received) == SelectSeq(received, LAMBDA ev : ev.type = "tool")

RECURSIVE Fragments(_)
\* the argument fragments of a sequence of deltas, concatenated in arrival
\* order
Fragments(deltas) ==
    IF deltas = <<>> THEN <<>>
    ELSE (IF Truthy(Head(deltas).tc.arguments) THEN Head(deltas).tc.arguments.text
          ELSE <<>>) \o Fragments(Tail(deltas))

\* the yielded responses that carry function calls
ToolCallResponses(yielded) == SelectSeq(yielded, LAMBDA r : r.functionCalls # <<>>)

\* the received deltas are those of one call index: id and name come first,
\* argument fragments later, and the fragments together are JSON
OneCallDeltas(received) ==
    LET d == ToolDeltas(received) IN
    /\ Len(d) >= 2
    /\ \A k \in 1..Len(d) : d[k].tc.index = 0
    /\ Truthy(d[1].tc.id) /\ Truthy(d[1].tc.name)
    /\ \A k \in 2..Len(d) : ~Truthy(d[k].tc.id) /\ Truthy(d[k].tc.arguments)
    /\ ArgsParse(Fragments(d)).ok

\* C16: in the OpenAI-compatible streaming generator no tool call is yielded
\* while the stream is being read, and once a stream that carried the deltas
\* of one call index (id and name first, argument fragments later) has ended,
\* exactly one function call has been yielded, with that id and name and with
\* args the JSON parse of the fragments in arrival order, in at most one
\* tool-call response.
C16_OneCompletedCallAtStreamEnd ==
    (gen.kind = "openai" /\ gen.mode = "stream") =>
        /\ gen.status = "streaming" => ToolCallResponses(gen.yielded) = <<>>
        /\ Len(ToolCallResponses(gen.yielded)) <= 1
        /\ (gen.status = "done" /\ OneCallDeltas(gen.received)) =>
              LET d == ToolDeltas(gen.received) IN
              /\ Len(ToolCallResponses(gen.yielded)) = 1
              /\ ToolCallResponses(gen.yielded)[1].functionCalls =
                    <<FunctionCall(d[1].tc.id, d[1].tc.name,
                                   ArgsParse(Fragments(d)).value)>>

\* the texts of the text deltas received, in arrival order
ReceivedTexts(received) ==
    LET t == SelectSeq(received, LAMBDA ev : ev.type = "text")
    IN  [k \in 1..Len(t) |-> t[k].text]

\* the texts of the yielded partial-text responses, in the order yielded
YieldedTexts(yielded) ==
    LET t == SelectSeq(yielded, LAMBDA r : r.functionCalls = <<>>)
    IN  [k \in 1..Len(t) |-> t[k].text]

\* the response that carries the accumulated tool calls
IsAccumulatedResponse(r) == r.finishReason = "tool_calls" /\ r.functionCalls # <<>>

\* C17: within one streamed response of the OpenAI-compatible, Gemini-relay
\* and Anthropic generators the partial-text responses are yielded in the
\* arrival order of their deltas, and the response carrying the accumulated
\* tool calls is the last response yielded: no text response follows it.
C17_TextInOrderToolCallsLast ==
    (gen.kind \in Translators /\ gen.mode = "stream") =>
        /\ YieldedTexts(gen.yielded) = ReceivedTexts(gen.received)
        /\ \A k \in 1..Len(gen.yielded) :
              IsAccumulatedResponse(gen.yielded[k]) => k = Len(gen.yielded)

\* a stream with a tool-call delta between two text deltas has ended: both
\* texts were yielded in order, then the accumulated call
C17_Witness ==
    /\ gen.kind \in Translators /\ gen.mode = "stream" /\ gen.status = "done"
    /\ Len(gen.received) = 3
    /\ gen.received[1].type = "text" /\ gen.received[1].text = Str(<<"Hel">>)
    /\ gen.received[2].type \in {"tool", "tool_start"}
    /\ gen.received[3].type = "text" /\ gen.received[3].text = Str(<<"lo">>)
    /\ Len(gen.yielded) = 3
    /\ gen.yielded[1].text = Str(<<"Hel">>)
    /\ gen.yielded[2].text = Str(<<"lo">>)
    /\ IsAccumulatedResponse(gen.yielded[3])

\* the argument text is not JSON
Malformed(arguments) == Truthy(arguments) /\ ~ArgsParse(arguments.text).ok

\* the accumulated calls whose concatenated arguments are not JSON
MalformedEntries(acc) ==
    {k \in 1..Len(acc) : acc[k].arguments # <<>> /\ ~ArgsParse(acc[k].arguments).ok}

\* C18: in the three translators a tool call whose arguments are malformed
\* JSON never makes the call fail.  A direct (non-streaming) tool call with
\* malformed arguments is returned at its place with its id and name and with
\* args {}; an accumulated streaming tool call with malformed arguments is
\* carried by the response that carries the accumulated calls, with its id and
\* name and with args {}, and that response is yielded when the stream ends
\* with [DONE] (for Anthropic, when the body ends).
C18_MalformedArgsSurfaceEmpty ==
    (gen.kind \in Translators) =>
        /\ gen.error # "SyntaxError"
        /\ (gen.mode = "single" /\ gen.status \in {"done", "failed"}
              /\ gen.kind # "anthropic" /\ gen.data.body.choices) =>
              /\ gen.status = "done"
              /\ Len(gen.result) = 1
              /\ \A k \in 1..Len(gen.data.body.tool_calls) :
                    Malformed(gen.data.body.tool_calls[k].arguments) =>
                        gen.result[1].functionCalls[k] =
                            FunctionCall(gen.data.body.tool_calls[k].id,
                                         gen.data.body.tool_calls[k].name, EmptyArgs)
              /\ (gen.kind = "litellm" /\ gen.data.body.function_call # <<>>
                    /\ Malformed(gen.data.body.function_call[1].arguments)) =>
                    \E c \in 1..Len(gen.result[1].functionCalls) :
                        /\ gen.result[1].functionCalls[c].name =
                              gen.data.body.function_call[1].name
                        /\ gen.result[1].functionCalls[c].args = EmptyArgs
        /\ (gen.mode = "stream") =>
              /\ \A r \in 1..Len(gen.yielded) :
                    IsAccumulatedResponse(gen.yielded[r]) =>
                        \A k \in MalformedEntries(gen.st.acc) :
                            gen.yielded[r].functionCalls[k] =
                                FunctionCall(gen.st.acc[k].id, gen.st.acc[k].name,
                                             EmptyArgs)
              /\ (gen.status = "done" /\ MalformedEntries(gen.st.acc) # {}
                    /\ (gen.kind = "anthropic" \/ gen.ended = "DONE")) =>
                    /\ gen.yielded # <<>>
                    /\ IsAccumulatedResponse(gen.yielded[Len(gen.yielded)])

\* a stream that accumulated a call without arguments and a call with malformed
\* arguments has ended, and both calls were yielded
C18_Witness ==
    /\ gen.kind \in Translators /\ gen.mode = "stream" /\ gen.status = "done"
    /\ Len(gen.st.acc) = 2
    /\ MalformedEntries(gen.st.acc) = {2}
    /\ gen.yielded # <<>>
    /\ gen.yielded[Len(gen.yielded)].functionCalls =
          <<FunctionCall(Str(<<"call_1">>), Str(<<"f">>), EmptyArgs),
            FunctionCall(Str(<<"call_2">>), Str(<<"g">>), EmptyArgs)>>

\* C19: when the caller's signal (request.config.abortSignal) is raised while
\* generateContent or generateContentStream is awaiting the provider, the
\* generator stops awaiting and the call ends with a cancellation error.
C19_CallerAbortEndsCall ==
    (gen.kind \in Generators /\ gen.abortedWhileAwaiting) =>
        /\ gen.status = "failed"
        /\ gen.error = "AbortError"

\* the usageMetadata of the responses a call has produced
ProducedUsages ==
    {gen.result[k].usageMetadata : k \in 1..Len(gen.result)}
        \cup {gen.yielded[k].usageMetadata : k \in 1..Len(gen.yielded)}

\* C20: every response produced by a translator has usage counts that are
\* defined and not negative; the total is the sum of prompt and candidates
\* counts whenever the provider supplied both prompt and completion counts;
\* and all three are zero when the provider reported no usage, as in the
\* responses of a stream.
C20_UsageTotalIsSum ==
    (gen.kind \in Translators) =>
        /\ \A u \in ProducedUsages :
              /\ Len(u) = 1
              /\ u[1].promptTokenCount.defined /\ u[1].promptTokenCount.num >= 0
              /\ u[1].candidatesTokenCount.defined /\ u[1].candidatesTokenCount.num >= 0
              /\ u[1].totalTokenCount.defined /\ u[1].totalTokenCount.num >= 0
        /\ (gen.mode = "single" /\ gen.status = "done") =>
              /\ (gen.data.usage.prompt.defined /\ gen.data.usage.completion.defined) =>
                    gen.result[1].usageMetadata[1].totalTokenCount.num =
                        gen.result[1].usageMetadata[1].promptTokenCount.num
                          + gen.result[1].usageMetadata[1].candidatesTokenCount.num
              /\ ~gen.data.usage.present =>
                    gen.result[1].usageMetadata = <<ZeroUsage>>
        /\ (gen.mode = "stream") =>
              \A k \in 1..Len(gen.yielded) : gen.yielded[k].usageMetadata = <<ZeroUsage>>

\* C26: in the OpenAI-compatible and Gemini-relay generators, whether the
\* stream ends with the [DONE] line or by the reader reporting the end of the
\* data, the last response yielded carries every accumulated tool call.
C26_AccumulatedCallsSurfaceAtEnd ==
    (gen.kind \in {"openai", "litellm"} /\ gen.mode = "stream"
       /\ gen.status = "done" /\ gen.st.acc # <<>>) =>
        /\ gen.yielded # <<>>
        /\ IsAccumulatedResponse(gen.yielded[Len(gen.yielded)])
        /\ Len(gen.yielded[Len(gen.yielded)].functionCalls) = Len(gen.st.acc)
        /\ \A k \in 1..Len(gen.st.acc) :
              /\ gen.yielded[Len(gen.yielded)].functionCalls[k].id = gen.st.acc[k].id
              /\ gen.yielded[Len(gen.yielded)].functionCalls[k].name = gen.st.acc[k].name

\* the tool-call deltas of one call index, in arrival order
DeltasOfIndex(received, i) ==
    SelectSeq(received, LAMBDA ev : ev.type = "tool" /\ ev.tc.index = i)

\* the provider id seen for a call index, else the synthetic call_<index>
StableId(received, i) ==
    LET withId == SelectSeq(DeltasOfIndex(received, i), LAMBDA ev : Truthy(ev.tc.id))
    IN  IF withId # <<>> THEN withId[1].tc.id ELSE Str(<<"call_", IndexText(i)>>)

\* C27: throughout an OpenAI-compatible or Gemini-relay stream, in whatever
\* order the id-bearing and index-only chunks arrive, the accumulator has one
\* entry per call index seen, and the entry of an index holds all argument
\* fragments of that index, under the provider id seen for the index or else
\* the synthetic call_<index>.
C27_OneEntryPerCallIndex ==
    (gen.kind \in {"openai", "litellm"} /\ gen.mode = "stream") =>
        /\ Len(gen.st.acc) =
              Cardinality({i \in {0, 1} : DeltasOfIndex(gen.received, i) # <<>>})
        /\ \A i \in {0, 1} :
              DeltasOfIndex(gen.received, i) # <<>> =>
                  \E k \in 1..Len(gen.st.acc) :
                      /\ gen.st.acc[k].id = StableId(gen.received, i)
                      /\ gen.st.acc[k].arguments =
                            Fragments(DeltasOfIndex(gen.received, i))

\* the positions of the content_block_start events of a block index
Starts(received, i) ==
    {k \in 1..Len(received) :
        received[k].type = "tool_start" /\ received[k].tc.index = i}

LastStart(received, i) ==
    CHOOSE k \in Starts(received, i) : \A j \in Starts(received, i) : j <= k

\* the input_json_delta events of a block index that arrived after the block
\* was registered
InputsOfBlock(received, i) ==
    SelectSeq(SubSeq(received, LastStart(received, i) + 1, Len(received)),
              LAMBDA ev : ev.type = "tool_input" /\ ev.tc.index = i)

\* the function call a registered block index stands for
BlockCall(received, i) ==
    FunctionCall(received[LastStart(received, i)].tc.id,
                 received[LastStart(received, i)].tc.name,
                 IF ArgsParse(Fragments(InputsOfBlock(received, i))).ok
                 THEN ArgsParse(Fragments(InputsOfBlock(received, i))).value
                 ELSE EmptyArgs)

Registered(received) == {i \in {0, 1} : Starts(received, i) # {}}

\* C28: in an Anthropic stream content_block_start, input_json_delta and
\* message_stop yield nothing (only text deltas yield while the stream is
\* read); once the read loop has ended exactly one final response has been
\* yielded, carrying one call per registered block index with the block's id
\* and name and args parsed from the concatenation of the fragments of its
\* index ({} if that is not JSON), and none if no tool_use block was started.
C28_AnthropicFlushAfterLoop ==
    (gen.kind = "anthropic" /\ gen.mode = "stream") =>
        /\ gen.status = "streaming" =>
              /\ ToolCallResponses(gen.yielded) = <<>>
              /\ Len(gen.yielded) = Len(ReceivedTexts(gen.received))
        /\ gen.status = "done" =>
              IF Registered(gen.received) = {}
              THEN ToolCallResponses(gen.yielded) = <<>>
              ELSE /\ Len(ToolCallResponses(gen.yielded)) = 1
                   /\ IsAccumulatedResponse(gen.yielded[Len(gen.yielded)])
                   /\ Len(gen.yielded[Len(gen.yielded)].functionCalls) =
                         Cardinality(Registered(gen.received))
                   /\ \A i \in Registered(gen.received) :
                         \E c \in 1..Len(gen.yielded[Len(gen.yielded)].functionCalls) :
                             gen.yielded[Len(gen.yielded)].functionCalls[c] =
                                 BlockCall(gen.received, i)

\* a tool_use block was started, both fragments of its input arrived, and
\* after the read loop the call was yielded with the parsed input
C28_Witness ==
    /\ gen.kind = "anthropic" /\ gen.mode = "stream" /\ gen.status = "done"
    /\ Len(gen.received) = 3
    /\ gen.received[1].type = "tool_start"
    /\ gen.received[2].type = "tool_input"
    /\ gen.received[3].type = "tool_input"
    /\ gen.yielded =
          <<Response(Str(<<>>),
                     <<FunctionCall(Str(<<"call_1">>), Str(<<"f">>), "{a:1}")>>,
                     "tool_calls", <<ZeroUsage>>)>>

\* C29: a `data:` line that is not JSON is skipped: reading it yields
\* nothing, leaves the tool-call accumulator as it was, and neither fails nor
\* ends the stream, so that the lines after it are processed as if it had not
\* been there.
C29_MalformedLineSkipped ==
    [][(/\ gen.kind \in Translators
        /\ gen.status = "streaming"
        /\ Len(gen'.received) = Len(gen.received) + 1
        /\ gen'.received[Len(gen'.received)].type = "malformed")
        => (/\ gen'.yielded = gen.yielded
            /\ gen'.st = gen.st
            /\ gen'.status = "streaming"
            /\ gen'.error = gen.error)]_vars

\* a stream in which a line that is not JSON came between a tool-call start
\* and a text delta has ended: the text and the accumulated call were yielded
C29_Witness ==
    /\ gen.kind \in Translators /\ gen.mode = "stream" /\ gen.status = "done"
    /\ Len(gen.received) = 3
    /\ gen.received[1].type \in {"tool", "tool_start"}
    /\ gen.received[2].type = "malformed"
    /\ gen.received[3].type = "text"
    /\ Len(gen.yielded) = 2
    /\ gen.yielded[1].text = gen.received[3].text
    /\ IsAccumulatedResponse(gen.yielded[2])

----------------------------------------------------------------------------
(* Claims about the timeout of a hook *)

\* C25: when a hook's timeout expires the executor has marked the hook as
\* timed out and sent SIGTERM to the running process, and when the process has
\* still not exited at the time the 5 second timer runs, SIGKILL has been sent.
C25_TermThenKill ==
    \A i \in 1..Len(child) :
        /\ child[i].timer = "fired" =>
              /\ child[i].timedOut
              /\ child[i].proc = "running" => "SIGTERM" \in child[i].signals
        /\ (child[i].killTimer = "fired" /\ child[i].proc = "running") =>
              "SIGKILL" \in child[i].signals

----------------------------------------------------------------------------
(* Claims about the requests of the translators *)

\* the parts of a turn that are function responses
ResponseParts(content) ==
    SelectSeq(content.parts, LAMBDA q : q.kind = "functionResponse")

\* the parts of a turn that are plain text
PlainTextParts(content) ==
    SelectSeq(content.parts, LAMBDA q : q.kind = "text" /\ q.text # <<>>)

\* t begins with p
IsPrefix(p, t) == Len(p) <= Len(t) /\ SubSeq(t, 1, Len(p)) = p

\* C21: in the Anthropic translator every user turn with a function-response
\* part is rewritten, before the wire request is built, into a turn with a
\* single text part; when all parts of the turn are function responses the
\* text begins with "## Tool Execution Completed", when the turn also had
\* plain text that text comes first and the heading after it; and no message
\* of the wire request has a function-response block.
C21_ToolResultsBecomeText ==
    (tr.kind = "anthropic" /\ tr.last.op = "generateContent") =>
        /\ \A c \in 1..Len(tr.last.contents) :
              (tr.last.contents[c].role = "user"
                 /\ ResponseParts(tr.last.contents[c]) # <<>>) =>
                  /\ Len(tr.last.processed[c].parts) = 1
                  /\ tr.last.processed[c].parts[1].kind = "text"
                  /\ LET text  == tr.last.processed[c].parts[1].text
                         plain == PlainTextParts(tr.last.contents[c])
                     IN  IF plain = <<>>
                         THEN text[1] = "## Tool Execution Completed\n\n"
                         ELSE /\ IsPrefix(plain[1].text, text)
                              /\ \E k \in (Len(plain[1].text) + 1)..Len(text) :
                                    text[k] = "## Tool Execution Completed\n\n"
        /\ \A m \in 1..Len(tr.last.messages) :
              \A b \in 1..Len(tr.last.messages[m].content) :
                  tr.last.messages[m].content[b].type \in {"text", "tool_use"}

\* a user turn with two tool results around a plain text was rewritten and
\* sent
C21_Witness ==
    /\ tr.kind = "anthropic" /\ tr.last.op = "generateContent"
    /\ Len(tr.last.contents) >= 1
    /\ Len(ResponseParts(tr.last.contents[1])) = 2
    /\ PlainTextParts(tr.last.contents[1]) # <<>>
    /\ Len(tr.last.messages) >= 1
    /\ Len(tr.last.messages[1].content) = 1
    /\ IsPrefix(<<"h", "i">>, tr.last.messages[1].content[1].text)

\* C22: sanitizing the parameter schema of a tool declaration gives a root of
\* type object with a properties object; for a schema whose root type is
\* "string" it gives exactly the one property `value` of type string, with
\* required = [value].
C22_SanitizedRootIsObject ==
    (tr.kind = "openai" /\ tr.last.op = "generateContent" /\ tr.last.tools # <<>>) =>
        /\ Len(tr.last.sanitized) = 1
        /\ tr.last.sanitized[1].type = TypeString("object")
        /\ tr.last.sanitized[1].properties \in {"empty", "kept", "value"}
        /\ (tr.last.tools[1].given = "object"
              /\ tr.last.tools[1].type = TypeString("string")) =>
              /\ tr.last.sanitized[1].properties = "value"
              /\ tr.last.sanitized[1].valueType = TypeString("string")
              /\ tr.last.sanitized[1].required = <<"value">>

\* a declaration with the root type "string" and a description was sanitized
C22_Witness ==
    /\ tr.kind = "openai" /\ tr.last.op = "generateContent"
    /\ tr.last.tools = <<Schema(TypeString("string"), FALSE, TRUE)>>
    /\ tr.last.sanitized[1].properties = "value"
    /\ tr.last.sanitized[1].valueDescription

RECURSIVE SumLen(_)
SumLen(texts) == IF texts = <<>> THEN 0 ELSE Len(Head(texts)) + SumLen(Tail(texts))

\* the text parts of a turn, in order
TextsOfTurn(content) ==
    LET t == SelectSeq(content.parts, LAMBDA q : q.kind = "text")
    IN  [k \in 1..Len(t) |-> t[k].text]

\* the length of the text parts of a conversation, concatenated
ConcatenatedLength(contents) ==
    SumLen([c \in 1..Len(contents) |->
              [k \in 1..SumLen(TextsOfTurn(contents[c])) |-> "x"]])

\* the single spaces extractTextFromContents puts between the parts of a
\* turn and between the turns
SeparatorCount(contents) ==
    SumLen([c \in 1..Len(contents) |->
              [k \in 1..(IF contents[c].parts = <<>> THEN 0
                         ELSE Len(contents[c].parts) - 1) |-> " "]])
      + (IF contents = <<>> THEN 0 ELSE Len(contents) - 1)

\* C23 as stated: whatever calls came before, countTokens returns
\* totalTokens = ceil(len/4) for the length of the concatenated text parts
\* and issues no network request.
C23_CountIsCeilOfConcatenation ==
    [][(tr.last.op = "none" /\ tr'.last.op = "countTokens") =>
          /\ tr'.last.totalTokens =
                (ConcatenatedLength(tr'.last.contents) + 3) \div 4
          /\ tr'.fetches = tr.fetches]_vars

\* C23, amended: whatever calls came before, countTokens returns totalTokens
\* = ceil(len/4) for the length of the texts of the parts joined by single
\* spaces (a part that is not text counts as the empty text), and issues no
\* network request.
C23_CountIsCeilOfJoinedText ==
    [][(tr.last.op = "none" /\ tr'.last.op = "countTokens") =>
          /\ tr'.last.totalTokens =
                (ConcatenatedLength(tr'.last.contents)
                   + SeparatorCount(tr'.last.contents) + 3) \div 4
          /\ tr'.fetches = tr.fetches]_vars

\* countTokens was called after a generateContent call, on a conversation
\* of two turns with 12 characters of text in three parts
C23_Witness ==
    /\ tr.kind \in Translators
    /\ tr.last.op = "countTokens"
    /\ tr.calls = 2 /\ tr.fetches = 1
    /\ Len(tr.last.contents) = 2
    /\ ConcatenatedLength(tr.last.contents) = 12
    /\ SeparatorCount(tr.last.contents) = 2
    /\ tr.last.totalTokens = 4

\* C24: whatever the request and whatever calls came before, embedContent of
\* the Anthropic translator fails with an error saying that embeddings are not
\* supported and issues no network request.
C24_AnthropicEmbedNotSupported ==
    [][(tr.kind = "anthropic" /\ tr.last.op = "none" /\ tr'.last.op = "embedContent") =>
          /\ tr'.last.error = "Anthropic does not support embeddings"
          /\ tr'.fetches = tr.fetches]_vars

\* embedContent of the Anthropic translator was called after a
\* generateContent call and failed
C24_Witness ==
    /\ tr.kind = "anthropic"
    /\ tr.last.op = "embedContent"
    /\ tr.calls = 2 /\ tr.fetches = 1
    /\ tr.last.error # ""

\* a turn whose parts list is empty or whose parts are all empty texts
FlattensToNothing(content) ==
    \A q \in 1..Len(content.parts) :
        content.parts[q].kind = "text" /\ content.parts[q].text = <<>>

\* the positions of the turns that are not dropped, in order
KeptTurns(contents) ==
    SelectSeq([c \in 1..Len(contents) |-> c],
              LAMBDA c : ~FlattensToNothing(contents[c]))

\* C30: in the wire request of each of the three translators no message has
\* empty content, the turns whose parts list is empty or flattens to nothing
\* are dropped, and the messages made from the other turns are in the order of
\* the conversation.
C30_NoEmptyMessages ==
    (tr.kind \in Translators /\ tr.last.op = "generateContent") =>
        LET wire == SelectSeq(tr.last.messages, LAMBDA m : m.from # 0) IN
        /\ \A m \in 1..Len(tr.last.messages) : tr.last.messages[m].content # <<>>
        /\ [m \in 1..Len(wire) |-> wire[m].from] = KeptTurns(tr.last.contents)

\* C31: every message of role user in the wire request of the Anthropic
\* translator has a text block whose text is not empty.
C31_UserMessagesCarryText ==
    (tr.kind = "anthropic" /\ tr.last.op = "generateContent") =>
        \A m \in 1..Len(tr.last.messages) :
            tr.last.messages[m].role = "user" =>
                \E b \in 1..Len(tr.last.messages[m].content) :
                    /\ tr.last.messages[m].content[b].type = "text"
                    /\ tr.last.messages[m].content[b].text # <<>>

\* the options the executor was called with: executeToolCall passes none
CallOptions == IF request.op = "executeHooks" THEN request.options ELSE NoOptions

\* the hooks for which executeHook armed its timer
TimedHooks == {i \in 1..Len(child) : child[i].timer # "none"}

\* C32 as stated: the timer of each hook is armed with the hook's own timeout
\* when the hook has one, else with options.timeout when the call has one,
\* else with 60000 ms.
C32_TimeoutAsSpecified ==
    \A i \in TimedHooks :
        child[i].timeout =
            IF child[i].hook.timeout.defined THEN child[i].hook.timeout.num
            ELSE IF CallOptions.timeout.defined THEN CallOptions.timeout.num
            ELSE 60000

\* C32: the timer of each hook is armed with the hook's own timeout when
\* the hook has one that is not 0, else with options.timeout when the call
\* has one that is not 0, else with 60000 ms.
C32_EffectiveTimeout ==
    \A i \in TimedHooks :
        child[i].timeout =
            IF child[i].hook.timeout.defined /\ child[i].hook.timeout.num # 0
            THEN child[i].hook.timeout.num
            ELSE IF CallOptions.timeout.defined /\ CallOptions.timeout.num # 0
            THEN CallOptions.timeout.num
            ELSE 60000

\* a hook without a timeout of its own has run into the timeout of the call
C32_Witness ==
    \E i \in TimedHooks :
        /\ ~child[i].hook.timeout.defined
        /\ CallOptions.timeout = Num(30000)
        /\ child[i].timer = "fired"
        /\ child[i].timeout = 30000

\* the positions of an event in the trace
Positions(ev) == {k \in 1..Len(trace) : trace[k] = ev}

\* C34: around one tool call, tool.execute starts only when every PreToolUse
\* hook has settled, the PostToolUse hooks start only after tool.execute has
\* returned or thrown, and when the tool throws the PostToolUse hooks are
\* started with the error in their payload.
C34_HooksOrderedAroundTool ==
    /\ [](request.op = "toolCall" =>
            /\ (pc = "executing" /\ HasHookExecutor) =>
                  /\ call.event = "PreToolUse"
                  /\ call.status = "returned"
                  /\ \A i \in 1..Len(child) : child[i].promise # "pending"
            /\ pc \in {"start", "preToolUse", "executing"} => Positions("PostToolUse") = {}
            /\ \A k \in Positions("PostToolUse") :
                  \E e \in Positions("execute") : e < k
            /\ \A k \in Positions("execute") :
                  \A e \in Positions("PreToolUse") : e < k)
    /\ [][(ToolExecuteThrows /\ HasHookExecutor) =>
            /\ call'.event = "PostToolUse"
            /\ call'.input.outcome = "error"
            /\ Len(child') = Len(getMatchingHooks(hookSettings["PostToolUse"],
                                                  call'.input))]_vars

\* the tool has thrown and a PostToolUse hook was spawned with the error
C34_Witness ==
    /\ pc = "postToolUseError"
    /\ Cardinality(Positions("PostToolUse")) = 1
    /\ call.event = "PostToolUse"
    /\ call.input.outcome = "error"
    /\ \E i \in 1..Len(child) : child[i].promise = "fulfilled"

\* C38: a call of executeToolCall for a tool of the registry runs the
\* PostToolUse hooks once, whether the tool returns or throws, and not again
\* when building the function response throws; for a tool that is not in the
\* registry no hook is run.
C38_PostToolUseOnce ==
    (request.op = "toolCall" /\ HasHookExecutor) =>
        IF request.tool_name.text \in Registry
        THEN /\ Cardinality(Positions("PostToolUse")) <= 1
             /\ pc = "done" => Cardinality(Positions("PostToolUse")) = 1
        ELSE /\ Positions("PreToolUse") = {}
             /\ Positions("PostToolUse") = {}
             /\ child = <<>>

\* the `close` or the `error` handler of a hook has run
Handled(c) == c.errorSeen \/ c.proc = "closed"

\* C37: a spawned hook has one result, that of the first of its `close` and
\* `error` handlers to run: a handler that runs later, also after a timeout,
\* leaves the result as it is (in every step that starts no new executeHooks
\* call), the first handler has cleared the timeout timer, and the call
\* returns one result for each hook.
C37_FirstHandlerFixesResult ==
    /\ [](/\ \A i \in 1..Len(child) :
                /\ Handled(child[i]) =>
                      /\ child[i].promise = "fulfilled"
                      /\ child[i].timer # "armed"
                /\ Cardinality({k \in 1..Len(settled) : settled[k] = i}) <= 1
           /\ call.status = "returned" => Len(call.results) = Len(call.matching))
    /\ [][\A i \in 1..Len(child) :
              (trace' = trace /\ child[i].promise # "pending") =>
                  /\ child'[i].promise = child[i].promise
                  /\ child'[i].value = child[i].value]_vars

\* both handlers of a hook that could not be spawned have run, and the
\* result is the one of the `error` handler
C37_Witness ==
    \E i \in 1..Len(child) :
        /\ child[i].errorSeen
        /\ child[i].proc = "closed"
        /\ child[i].value = ErrorResult(child[i].message)
        /\ call.status = "returned"

\* C40: once a hook has produced its result no signal is sent to its
\* process: a hook that closed before its timeout has received no signal, and
\* a hook that closed after the SIGTERM of its timeout receives no SIGKILL
\* when the 5 second timer runs.
C40_NoSignalAfterResult ==
    /\ [](\A i \in 1..Len(child) :
              (child[i].promise = "fulfilled" /\ ~child[i].timedOut) =>
                  child[i].signals = {})
    /\ [][\A i \in 1..Len(child) :
              (trace' = trace /\ child[i].promise # "pending") =>
                  child'[i].signals = child[i].signals]_vars

\* a hook closed after the SIGTERM of its timeout, and the 5 second timer
\* has run since
C40_Witness ==
    \E i \in 1..Len(child) :
        /\ child[i].timedOut
        /\ child[i].proc = "closed"
        /\ child[i].promise = "fulfilled"
        /\ child[i].killTimer = "fired"
        /\ child[i].signals = {"SIGTERM"}

\* a model name with o3, o1-preview or o1-mini in it, in any case
ThinkingFamily(model) ==
    \E k \in 1..Len(model) :
        \/ Lower(model[k]) = "o3"
        \/ /\ Lower(model[k]) = "o1"
           /\ k < Len(model)
           /\ model[k + 1] \in {"-preview", "-mini"}

\* C33: the temperature of an OpenAI-compatible request is 1 for a model of
\* the o1 or o3 family, whatever was requested; for any other model it is the
\* requested temperature when one is given, 0 included, and 0.7 when none is
\* given.
C33_TemperatureByModel ==
    (tr.kind = "openai" /\ tr.last.op = "generateContent") =>
        tr.last.temperature =
            IF ThinkingFamily(tr.last.model) THEN 10
            ELSE IF tr.last.requested.defined THEN tr.last.requested.num ELSE 7

\* the entries of the log of a run that are of one kind
LogOf(ev) == SelectSeq(ni.log, LAMBDA e : e.ev = ev)

\* C35: in a non-interactive run with hooks configured the Stop hooks have
\* been executed once for every completed turn, the last turn, in which the
\* model requests no tool, included.
C35_StopAfterEveryTurn ==
    (ni.pc \in {"loop", "returned"} /\ ni.hooks) =>
        Len(LogOf("Stop")) = Len(LogOf("turn"))

\* the deltas received for one call index
CallDeltas(i) ==
    SelectSeq(gen.received, LAMBDA ev : ev.type = "tool" /\ ev.tc.index = i)

\* the deltas of call index i are a name followed by argument fragments
\* that together are JSON, or one delta with name and arguments
StreamedCall(i) ==
    LET d == CallDeltas(i) IN
    /\ d # <<>>
    /\ Truthy(d[1].tc.name)
    /\ \A k \in 2..Len(d) : ~Truthy(d[k].tc.name) /\ Truthy(d[k].tc.arguments)
    /\ ArgsParse(Fragments(d)).ok

\* the function calls yielded, in order
YieldedCalls ==
    LET r == ToolCallResponses(gen.yielded)
    IN  [k \in 1..Len(r) |-> r[k].functionCalls[1]]

\* C36: when the stream of a custom endpoint has carried the deltas of tool
\* calls, each a name followed by its argument fragments, and then a chunk
\* with finish_reason tool_calls, one function call has been yielded for each
\* call index, with the name of the call and the parse of its fragments.
C36_CustomStreamYieldsToolCalls ==
    LET indices == {i \in {0, 1} : CallDeltas(i) # <<>>} IN
    (/\ gen.kind = "custom" /\ gen.mode = "stream" /\ gen.status = "done"
     /\ indices # {}
     /\ \A i \in indices : StreamedCall(i)
     /\ gen.received[Len(gen.received)].finish = "tool_calls") =>
        /\ Len(YieldedCalls) = Cardinality(indices)
        /\ \A i \in indices :
              \E k \in 1..Len(YieldedCalls) :
                  /\ YieldedCalls[k].name = CallDeltas(i)[1].tc.name
                  /\ YieldedCalls[k].args = ArgsParse(Fragments(CallDeltas(i))).value

\* the lines of a body up to its end marker, for the generators that have one
LinesRead(kind, lines) ==
    IF kind # "anthropic" /\ \E k \in 1..Len(lines) : lines[k] = <<"da", "ta: ", "[DONE]">>
    THEN SubSeq(lines, 1,
                (CHOOSE k \in 1..Len(lines) :
                    /\ lines[k] = <<"da", "ta: ", "[DONE]">>
                    /\ \A j \in 1..(k - 1) : lines[j] # <<"da", "ta: ", "[DONE]">>) - 1)
    ELSE lines

\* the data texts of the data lines of a body, in order
DataTexts(lines) ==
    LET d == SelectSeq(lines, LAMBDA l : IsDataLine(l))
    IN  [k \in 1..Len(d) |-> DataOf(d[k])]

\* C39: however the body of a stream is cut into chunks, when the generator
\* is done it has yielded what it yields when the whole body arrives as one
\* chunk, and it has parsed the data text of each data line once, whole and
\* in order.
C39_ChunkingDoesNotMatter ==
    (gen.status = "done" /\ gen.kind \in Translators) =>
        LET whole == SseCall(gen.kind, gen.lines)
            once  == ProcessLines(gen.kind, whole.loop,
                                  TakeLines(whole.rest).lines)
        IN  /\ gen.loop.yielded =
                  once.yielded \o (IF gen.kind = "anthropic"
                                   THEN convertAccumulatedToolCallsToGemini(once.st.acc)
                                   ELSE <<>>)
            /\ gen.loop.parsed = DataTexts(LinesRead(gen.kind, gen.lines))

\* a body was read in several chunks, one of which ended inside a data
\* line, and responses were yielded
C39_Witness ==
    /\ gen.status = "done"
    /\ gen.kind \in Translators
    /\ gen.midLine
    /\ Len(gen.loop.yielded) >= 2

====
